---- MODULE Spec2Model ----
(***************************************************************************)
(* TinyJson (include/TinyJson.h): the json value class, its serializer and *)
(* the recursive-descent parser, modelled as operators over code points    *)
(* and bytes, and two client programs that drive them.                     *)
(*                                                                         *)
(* Text is a sequence of numbers: a std::string is a sequence of bytes, a  *)
(* u32 stream a sequence of code points.  A stream is a pair (s, pos), pos *)
(* the index of the next code point to read.  An exception is a result     *)
(* record with ok = FALSE.                                                 *)
(***************************************************************************)
EXTENDS Integers, Sequences, FiniteSets

(***************************************************************************)
(* Characters                                                              *)
(***************************************************************************)

\* The printable ASCII characters in code order, from 32 (space) to 126.
Ascii ==
  << " ", "!", "\"", "#", "$", "%", "&", "'", "(", ")", "*", "+", ",", "-", ".", "/",
     "0", "1", "2", "3", "4", "5", "6", "7", "8", "9", ":", ";", "<", "=", ">", "?",
     "@", "A", "B", "C", "D", "E", "F", "G", "H", "I", "J", "K", "L", "M", "N", "O",
     "P", "Q", "R", "S", "T", "U", "V", "W", "X", "Y", "Z", "[", "\\", "]", "^", "_",
     "GRAVE", "a", "b", "c", "d", "e", "f", "g", "h", "i", "j", "k", "l", "m", "n", "o",
     "p", "q", "r", "s", "t", "u", "v", "w", "x", "y", "z", "{", "|", "}", "~" >>

\* The code point of a character literal (U'x' in the source).
Ord(c) ==
  CASE c = "\t" -> 9
    [] c = "\n" -> 10
    [] c = "\f" -> 12
    [] c = "\r" -> 13
    [] OTHER -> 31 + (CHOOSE i \in 1..Len(Ascii) : Ascii[i] = c)

\* A text literal: the code points of a sequence of characters.
U(cs) == [i \in 1..Len(cs) |-> Ord(cs[i])]

\* The code points of the punctuation of a JSON text.
Quote == 34

Backslash == 92

Slash == 47

Comma == 44

Colon == 58

Minus == 45

Dot == 46

LeftBracket == 91

RightBracket == 93

LeftBrace == 123

RightBrace == 125

\* (char32_t)EOF, what peek() and get() return at the end of the stream.
EOF == -1

\* std::isspace in the "C" locale: space, \t, \n, \v, \f, \r.
isspace(c) == c \in {32, 9, 10, 11, 12, 13}

isdigit(c) == c >= 48 /\ c <= 57

\* isxdigit: 0-9, A-F, a-f.
isxdigit(c) == isdigit(c) \/ (c >= 65 /\ c <= 70) \/ (c >= 97 /\ c <= 102)

\* std::tolower in the "C" locale.
tolower(c) == IF c >= 65 /\ c <= 90 THEN c + 32 ELSE c

RECURSIVE Pow(_, _)
Pow(b, n) == IF n <= 0 THEN 1 ELSE b * Pow(b, n - 1)

\* The concatenation of a sequence of texts.
RECURSIVE Flatten(_)
Flatten(ss) == IF ss = <<>> THEN <<>> ELSE Head(ss) \o Flatten(Tail(ss))

(***************************************************************************)
(* UTF-8 <-> UTF-32 (std::codecvt_utf8<char32_t>)                          *)
(***************************************************************************)

\* The UTF-8 bytes of one code point (at most 0x10FFFF).
Utf8Bytes(c) ==
  IF c < 128 THEN << c >>
  ELSE IF c < 2048 THEN << 192 + (c \div 64), 128 + (c % 64) >>
  ELSE IF c < 65536
    THEN << 224 + (c \div 4096), 128 + ((c \div 64) % 64), 128 + (c % 64) >>
  ELSE << 240 + (c \div 262144), 128 + ((c \div 4096) % 64),
          128 + ((c \div 64) % 64), 128 + (c % 64) >>

\* U32ToU8: to_bytes throws range_error on a code point above 0x10FFFF, which
\* the function rethrows as runtime_error.
RECURSIVE U32ToU8(_)
U32ToU8(u32) ==
  IF u32 = <<>> THEN [ok |-> TRUE, bytes |-> <<>>]
  ELSE IF Head(u32) < 0 \/ Head(u32) > 1114111 THEN [ok |-> FALSE, bytes |-> <<>>]
  ELSE LET rest == U32ToU8(Tail(u32))
       IN  [ok |-> rest.ok, bytes |-> IF rest.ok THEN Utf8Bytes(Head(u32)) \o rest.bytes ELSE <<>>]

\* The number of bytes of the UTF-8 sequence a lead byte starts (0: not a lead byte).
Utf8Len(b) ==
  IF b < 128 THEN 1
  ELSE IF b >= 194 /\ b < 224 THEN 2
  ELSE IF b >= 224 /\ b < 240 THEN 3
  ELSE IF b >= 240 /\ b < 245 THEN 4
  ELSE 0

IsCont(u8, i) == i <= Len(u8) /\ u8[i] >= 128 /\ u8[i] < 192

\* codecvt_utf8<char32_t>::in, as the stream buffer conv of parser::parse uses
\* it: the code points of the well-formed UTF-8 sequences the bytes start
\* with.  A C string ends at its first NUL byte.
RECURSIVE from_utf8(_)
from_utf8(u8) ==
  IF u8 = <<>> \/ Head(u8) = 0 THEN <<>>
  ELSE LET b == Head(u8)
           n == Utf8Len(b)
       IN  IF n = 1 THEN << b >> \o from_utf8(Tail(u8))
           ELSE IF n = 0 \/ ~(\A i \in 2..n : IsCont(u8, i)) THEN <<>>
           ELSE LET c == IF n = 2 THEN (b - 192) * 64 + (u8[2] - 128)
                         ELSE IF n = 3
                           THEN (b - 224) * 4096 + (u8[2] - 128) * 64 + (u8[3] - 128)
                         ELSE (b - 240) * 262144 + (u8[2] - 128) * 4096
                              + (u8[3] - 128) * 64 + (u8[4] - 128)
                    overlong == (n = 3 /\ c < 2048) \/ (n = 4 /\ c < 65536)
                IN  IF overlong \/ c > 1114111 THEN <<>>
                    ELSE << c >> \o from_utf8(SubSeq(u8, n + 1, Len(u8)))

\* trim: the text without its leading and trailing " \t\r\n".
TrimSet == {32, 9, 13, 10}

trim(str) ==
  LET keep == {i \in 1..Len(str) : str[i] \notin TrimSet}
  IN  IF keep = {} THEN <<>>
      ELSE LET strBegin == CHOOSE i \in keep : \A j \in keep : i <= j
               strEnd == CHOOSE i \in keep : \A j \in keep : j <= i
           IN  SubSeq(str, strBegin, strEnd)

(***************************************************************************)
(* The json value (class json)                                             *)
(*                                                                         *)
(* A json is its _type tag and the payload _value points to.  The record   *)
(* has one field per payload type, so that any two values can be compared; *)
(* the fields the tag does not select keep their default.  A copy is the   *)
(* value itself: the copy constructor and operator= clone the payload.     *)
(*   str  : std::string, its bytes                                         *)
(*   int  : long long                                                      *)
(*   dbl  : double, as a decimal: (-1)^neg * m * 10^e, with m not a        *)
(*          multiple of 10 (m = 0 has e = 0); cls tells inf and nan apart  *)
(*   arr  : json_array (std::vector<json>)                                 *)
(*   obj  : json_object (std::map<std::string, json>): the entries in the  *)
(*          map's iteration order, ascending by key, keys unique           *)
(***************************************************************************)

json_t == {"string", "number_integer", "number_double", "array", "boolean",
           "object", "null", "invalid"}

NoDouble == [cls |-> "finite", neg |-> FALSE, m |-> 0, e |-> 0]

Blank == [type |-> "null", str |-> <<>>, int |-> 0, dbl |-> NoDouble, bool |-> FALSE,
          arr |-> <<>>, obj |-> <<>>]

\* A default constructor that leaves the kind json_t::invalid.
json_invalid == [Blank EXCEPT !.type = "invalid"]

\* json::json()
json_null == Blank

\* json::json(std::string), json(std::string &), json(char [])
json_string(val) == [Blank EXCEPT !.type = "string", !.str = val]

\* json::json(double)
json_double(val) == [Blank EXCEPT !.type = "number_double", !.dbl = val]

\* json::json(long long), json(int)
json_integer(val) == [Blank EXCEPT !.type = "number_integer", !.int = val]

\* json::json(bool)
json_bool(val) == [Blank EXCEPT !.type = "boolean", !.bool = val]

\* json::json(json_array &), json(json_array &&)
json_array(array) == [Blank EXCEPT !.type = "array", !.arr = array]

\* json::json(json_object &), json(json_object &&)
json_object(obj) == [Blank EXCEPT !.type = "object", !.obj = obj]

\* json::type_name
type_name(j) ==
  CASE j.type = "string" -> "string"
    [] j.type = "array" -> "array"
    [] j.type = "object" -> "object"
    [] j.type \in {"number_double", "number_integer"} -> "number"
    [] j.type = "boolean" -> "boolean"
    [] j.type = "null" -> "null"
    [] OTHER -> "invalid"

\* A double: the decimal m * 10^e, normalised.
RECURSIVE Dec(_, _, _)
Dec(neg, m, e) ==
  IF m = 0 THEN [cls |-> "finite", neg |-> neg, m |-> 0, e |-> 0]
  ELSE IF m % 10 = 0 THEN Dec(neg, m \div 10, e + 1)
  ELSE [cls |-> "finite", neg |-> neg, m |-> m, e |-> e]

\* operator== of two doubles: NaN equals nothing, -0.0 equals 0.0.
double_eq(a, b) ==
  /\ a.cls # "nan"
  /\ b.cls # "nan"
  /\ a.cls = b.cls
  /\ a.m = b.m
  /\ a.e = b.e
  /\ (a.neg = b.neg \/ (a.cls = "finite" /\ a.m = 0))

\* std::string operator<: the bytes compared as unsigned char, a proper
\* prefix before the longer text.
RECURSIVE string_lt(_, _)
string_lt(a, b) ==
  IF b = <<>> THEN FALSE
  ELSE IF a = <<>> THEN TRUE
  ELSE IF Head(a) # Head(b) THEN Head(a) < Head(b)
  ELSE string_lt(Tail(a), Tail(b))

\* The errors thrown (std::runtime_error and the standard library's), by where
\* they are thrown; CHECK_TYPE_MISMATCH(t1, t2) writes "expect type t1, but
\* found type t2".
NoError == [msg |-> "", t1 |-> "", t2 |-> ""]

Error(msg) == [msg |-> msg, t1 |-> "", t2 |-> ""]

CHECK_TYPE_MISMATCH(t1, t2) == [msg |-> "expect type, but found type", t1 |-> t1, t2 |-> t2]

\* The outcome of a method call on a json: whether it returned, what it threw,
\* the json afterwards (self) and what it returned (ret), a payload boxed as a
\* json of its type, a size_t as an integer.
Return(self, ret) == [ok |-> TRUE, err |-> NoError, self |-> self, ret |-> ret]

Throw(self, err) == [ok |-> FALSE, err |-> err, self |-> self, ret |-> json_null]

\* json::operator==, with std::vector's and std::map's operator==: the sizes
\* are equal and the elements (the key and the value of an entry) pairwise.
RECURSIVE json_eq(_, _)
\* An operator== that compares the kinds only.
json_eq_kind(lhs, rhs) == lhs.type = rhs.type

json_eq(lhs, rhs) ==
  IF lhs.type # rhs.type THEN FALSE
  ELSE CASE lhs.type = "array" ->
              /\ Len(lhs.arr) = Len(rhs.arr)
              /\ \A i \in 1..Len(lhs.arr) : json_eq(lhs.arr[i], rhs.arr[i])
         [] lhs.type = "object" ->
              /\ Len(lhs.obj) = Len(rhs.obj)
              /\ \A i \in 1..Len(lhs.obj) :
                   /\ lhs.obj[i].key = rhs.obj[i].key
                   /\ json_eq(lhs.obj[i].val, rhs.obj[i].val)
         [] lhs.type = "null" -> TRUE
         [] lhs.type = "string" -> lhs.str = rhs.str
         [] lhs.type = "boolean" -> lhs.bool = rhs.bool
         [] lhs.type = "number_integer" -> lhs.int = rhs.int
         [] lhs.type = "number_double" -> double_eq(lhs.dbl, rhs.dbl)
         [] OTHER -> FALSE

\* json::operator!=
json_ne(lhs, rhs) == ~json_eq(lhs, rhs)

\* std::map::find: the index of the entry with the key, 0 for end().
map_find(members, key) ==
  IF \E i \in 1..Len(members) : members[i].key = key
    THEN CHOOSE i \in 1..Len(members) : members[i].key = key
    ELSE 0

\* std::map::operator[] of a map kept in insertion order.
map_subscript_append(members, key) ==
  IF map_find(members, key) # 0 THEN members
  ELSE Append(members, [key |-> key, val |-> json_null])

\* std::map::operator[]: the map with an entry for the key, a new entry
\* holding json() placed by the key's order.
map_subscript(members, key) ==
  IF map_find(members, key) # 0 THEN members
  ELSE LET n == Cardinality({i \in 1..Len(members) : string_lt(members[i].key, key)})
       IN  SubSeq(members, 1, n) \o << [key |-> key, val |-> json_null] >>
             \o SubSeq(members, n + 1, Len(members))

\* json::operator=: the type and a clone of the payload of other; a type
\* outside string..null throws.
json_assign(other) ==
  IF other.type \in json_t \ {"invalid"} THEN Return(other, other)
  ELSE Throw(other, Error("unexpected json type"))

\* json::get_string
get_string(j) ==
  IF j.type # "string" THEN Throw(j, CHECK_TYPE_MISMATCH(j.type, "string"))
  ELSE Return(j, json_string(j.str))

\* json::get_integer
get_integer(j) ==
  IF j.type # "number_integer" THEN Throw(j, CHECK_TYPE_MISMATCH(j.type, "number_integer"))
  ELSE Return(j, json_integer(j.int))

\* json::get_double taking the payload of an integer for a double.
get_double_coerce(j) ==
  IF j.type \notin {"number_double", "number_integer"}
    THEN Throw(j, CHECK_TYPE_MISMATCH(j.type, "number_double"))
  ELSE Return(j, json_double(j.dbl))

\* json::get_double
get_double(j) ==
  IF j.type # "number_double" THEN Throw(j, CHECK_TYPE_MISMATCH(j.type, "number_double"))
  ELSE Return(j, json_double(j.dbl))

\* json::get_bool
get_bool(j) ==
  IF j.type # "boolean" THEN Throw(j, CHECK_TYPE_MISMATCH(j.type, "boolean"))
  ELSE Return(j, json_bool(j.bool))

\* json::get_object
get_object(j) ==
  IF j.type # "object" THEN Throw(j, CHECK_TYPE_MISMATCH(j.type, "object"))
  ELSE Return(j, json_object(j.obj))

\* json::get_array
get_array(j) ==
  IF j.type # "array" THEN Throw(j, CHECK_TYPE_MISMATCH(j.type, "array"))
  ELSE Return(j, json_array(j.arr))

\* json::get_null
get_null(j) ==
  IF j.type # "null" THEN Throw(j, CHECK_TYPE_MISMATCH(j.type, "null"))
  ELSE Return(j, json_null)

\* json::has_member
has_member(j, member_name) ==
  IF j.type # "object" THEN Throw(j, CHECK_TYPE_MISMATCH(j.type, "object"))
  ELSE Return(j, json_bool(map_find(j.obj, member_name) # 0))

\* json::add_member as std::map::insert: a name the object has keeps its value.
add_member_insert(j, member_name, member_value) ==
  IF j.type # "object" THEN Throw(j, CHECK_TYPE_MISMATCH(j.type, "object"))
  ELSE IF map_find(j.obj, member_name) # 0 THEN Return(j, json_null)
  ELSE LET members == map_subscript(j.obj, member_name)
           at == map_find(members, member_name)
           set == json_assign(member_value)
       IN  IF ~set.ok THEN Throw(json_object(members), set.err)
           ELSE Return(json_object([members EXCEPT ![at].val = set.self]), json_null)

\* json::add_member: (*members)[member_name] = member_value
add_member(j, member_name, member_value) ==
  IF j.type # "object" THEN Throw(j, CHECK_TYPE_MISMATCH(j.type, "object"))
  ELSE LET members == map_subscript(j.obj, member_name)
           at == map_find(members, member_name)
           set == json_assign(member_value)
       IN  IF ~set.ok THEN Throw(json_object(members), set.err)
           ELSE Return(json_object([members EXCEPT ![at].val = set.self]), json_null)

\* An add_element that puts the element before the others.
add_element_front(j, elem) ==
  IF j.type # "array" THEN Throw(j, CHECK_TYPE_MISMATCH(j.type, "array"))
  ELSE Return(json_array(<< elem >> \o j.arr), json_null)

\* json::add_element: elems->push_back(elem)
add_element(j, elem) ==
  IF j.type # "array" THEN Throw(j, CHECK_TYPE_MISMATCH(j.type, "array"))
  ELSE Return(json_array(Append(j.arr, elem)), json_null)

\* json::size
size(j) ==
  IF j.type = "array" THEN Return(j, json_integer(Len(j.arr)))
  ELSE IF j.type = "object" THEN Return(j, json_integer(Len(j.obj)))
  ELSE Throw(j, Error("Unexpected json type, expected array or object"))

\* json::operator[](const char *key) without its test for the key: the entry
\* std::map::operator[] makes is returned.
subscript_key_insert(j, key) ==
  IF j.type # "object" THEN Throw(j, CHECK_TYPE_MISMATCH(j.type, "object"))
  ELSE Return(json_object(map_subscript(j.obj, key)),
              map_subscript(j.obj, key)[map_find(map_subscript(j.obj, key), key)].val)

\* json::operator[](const char *key); ret is the member the reference names.
subscript_key(j, key) ==
  IF j.type # "object" THEN Throw(j, CHECK_TYPE_MISMATCH(j.type, "object"))
  ELSE IF map_find(j.obj, key) = 0 THEN Throw(j, Error("key not found."))
  ELSE Return(json_object(map_subscript(j.obj, key)), j.obj[map_find(j.obj, key)].val)

\* json::operator[](int index); ret is the element the reference names.
subscript_index(j, index) ==
  IF j.type # "array" THEN Throw(j, CHECK_TYPE_MISMATCH(j.type, "array"))
  ELSE IF index < 0 \/ index >= Len(j.arr) THEN Throw(j, Error("index out of range."))
  ELSE Return(j, j.arr[index + 1])

\* json::operator const std::string
to_std_string(j) ==
  IF j.type = "string" THEN Return(j, json_string(j.str))
  ELSE Throw(j, Error("cannot cast to json string"))

\* json::operator const double
to_std_double(j) ==
  IF j.type = "number_double" THEN Return(j, json_double(j.dbl))
  ELSE Throw(j, Error("cannot cast to json number"))

\* json::operator const long long
to_long_long(j) ==
  IF j.type = "number_integer" THEN Return(j, json_integer(j.int))
  ELSE Throw(j, Error("cannot cast to json number"))

\* json::operator const bool
to_std_bool(j) ==
  IF j.type = "boolean" THEN Return(j, json_bool(j.bool))
  ELSE Throw(j, Error("cannot cast to json boolean"))

(***************************************************************************)
(* The serializer (json::to_string)                                        *)
(***************************************************************************)

\* The decimal digits of a natural number.
RECURSIVE Digits(_)
Digits(n) == IF n < 10 THEN << 48 + n >> ELSE Append(Digits(n \div 10), 48 + (n % 10))

\* n copies of the digit 0.
Zeros(n) == [i \in 1..n |-> 48]

\* std::to_string(long long) as "%llu" of the magnitude: the sign is lost.
integer_to_string_unsigned(n) == Digits(IF n < 0 THEN -n ELSE n)

\* std::to_string(long long): "%lld".
integer_to_string(n) == IF n < 0 THEN << 45 >> \o Digits(-n) ELSE Digits(n)

\* The number of fractional digits "%f" prints.
FractionDigits == 6

\* std::to_string(double): "%f", fixed notation with six fractional digits,
\* the value rounded to them (a tie away from zero); "inf" and "nan" for the
\* values that are not finite.
double_to_string(d) ==
  LET sign == IF d.neg THEN << 45 >> ELSE <<>>
  IN  IF d.cls = "inf" THEN sign \o << 105, 110, 102 >>
      ELSE IF d.cls = "nan" THEN sign \o << 110, 97, 110 >>
      ELSE IF d.e >= 0
        THEN sign \o Digits(d.m) \o (IF d.m = 0 THEN <<>> ELSE Zeros(d.e))
               \o << 46 >> \o Zeros(FractionDigits)
      ELSE LET k == -d.e
               drop == k - FractionDigits
               \* the value in units of 10^-6
               scaled == IF drop <= 0 THEN [hi |-> d.m, pad |-> -drop]
                         ELSE IF drop > 9 THEN [hi |-> 0, pad |-> 0]
                         ELSE [hi |-> (d.m + (Pow(10, drop) \div 2)) \div Pow(10, drop),
                               pad |-> 0]
               all == Digits(scaled.hi) \o Zeros(scaled.pad)
               full == IF Len(all) <= FractionDigits
                         THEN Zeros(FractionDigits + 1 - Len(all)) \o all
                         ELSE all
           IN  sign \o SubSeq(full, 1, Len(full) - FractionDigits) \o << 46 >>
                 \o SubSeq(full, Len(full) - FractionDigits + 1, Len(full))

\* std::string::c_str() written to a stream: the bytes before the first NUL.
c_str(str) ==
  IF \E i \in 1..Len(str) : str[i] = 0
    THEN SubSeq(str, 1, (CHOOSE i \in 1..Len(str) :
                           str[i] = 0 /\ \A j \in 1..(i - 1) : str[j] # 0) - 1)
    ELSE str

\* The streams u32strm of parser::parse may deliver for the C string s.  Text
\* that is well-formed UTF-8 is delivered whole.  The buffer converts the
\* bytes in blocks and delivers nothing of a block that holds a malformed
\* sequence, so of other text some part of the code points before the first
\* malformed sequence is delivered, which part depending on the blocks.
u32strm(s) ==
  IF U32ToU8(from_utf8(s)).bytes = c_str(s) THEN {from_utf8(s)}
  ELSE {SubSeq(from_utf8(s), 1, n) : n \in 0..Len(from_utf8(s))}

\* The result of to_string: the text, or the exception.
Text(text) == [ok |-> TRUE, err |-> NoError, text |-> text]

NoText(err) == [ok |-> FALSE, err |-> err, text |-> <<>>]

\* json::to_string, json::object_to_string and json::array_to_string.  The
\* members of an object are written in the map's order as "key" : value, the
\* elements of an array in order, both separated by ",".
RECURSIVE to_string(_), object_to_string(_), array_to_string(_),
          members_to_string(_, _), elements_to_string(_, _)
to_string(j) ==
  CASE j.type = "object" -> object_to_string(j)
    [] j.type = "array" -> array_to_string(j)
    [] j.type = "string" -> Text(<< 34 >> \o j.str \o << 34 >>)
    [] j.type = "number_integer" -> Text(integer_to_string(j.int))
    [] j.type = "number_double" -> Text(double_to_string(j.dbl))
    [] j.type = "boolean" ->
         Text(IF j.bool THEN << 116, 114, 117, 101 >> ELSE << 102, 97, 108, 115, 101 >>)
    [] j.type = "null" -> Text(<< 110, 117, 108, 108 >>)
    [] OTHER -> NoText(Error("invalid json type"))

\* The loop of object_to_string from member i on.
members_to_string(jobj, i) ==
  IF i > Len(jobj) THEN Text(<<>>)
  ELSE LET value == to_string(jobj[i].val)
           rest == members_to_string(jobj, i + 1)
       IN  IF ~value.ok THEN value
           ELSE IF ~rest.ok THEN rest
           ELSE Text(<< 34 >> \o c_str(jobj[i].key) \o << 34 >> \o << 32, 58, 32 >>
                       \o c_str(value.text)
                       \o (IF i < Len(jobj) THEN << 44 >> ELSE <<>>) \o rest.text)

object_to_string(j) ==
  LET body == members_to_string(j.obj, 1)
  IN  IF ~body.ok THEN body ELSE Text(<< 123 >> \o body.text \o << 125 >>)

\* The loop of array_to_string from element i on.
elements_to_string(jarray, i) ==
  IF i > Len(jarray) THEN Text(<<>>)
  ELSE LET value == to_string(jarray[i])
           rest == elements_to_string(jarray, i + 1)
       IN  IF ~value.ok THEN value
           ELSE IF ~rest.ok THEN rest
           ELSE Text(c_str(value.text) \o (IF i < Len(jarray) THEN << 44 >> ELSE <<>>)
                       \o rest.text)

array_to_string(j) ==
  LET body == elements_to_string(j.arr, 1)
  IN  IF ~body.ok THEN body ELSE Text(<< 91 >> \o body.text \o << 93 >>)

(***************************************************************************)
(* Number conversion (std::stoll, std::stod, parser::to_integer,           *)
(* parser::to_double, parser::to_bool)                                     *)
(***************************************************************************)

\* The index of the first byte of str at or after i that is no digit.
RECURSIVE DigitsEnd(_, _)
DigitsEnd(str, i) ==
  IF i <= Len(str) /\ isdigit(str[i]) THEN DigitsEnd(str, i + 1) ELSE i

\* The index of the first byte of str at or after i that is no white space.
RECURSIVE SpaceEnd(_, _)
SpaceEnd(str, i) ==
  IF i <= Len(str) /\ isspace(str[i]) THEN SpaceEnd(str, i + 1) ELSE i

\* The number a text of decimal digits denotes.
RECURSIVE DigitsValue(_)
DigitsValue(ds) ==
  IF ds = <<>> THEN 0 ELSE 10 * DigitsValue(SubSeq(ds, 1, Len(ds) - 1)) + (ds[Len(ds)] - 48)

\* A text of digits without its leading zeros.
RECURSIVE StripZeros(_)
StripZeros(ds) == IF ds # <<>> /\ Head(ds) = 48 THEN StripZeros(Tail(ds)) ELSE ds

\* The digits of LLONG_MAX, 9223372036854775807.
LLongMaxDigits == << 57, 50, 50, 51, 51, 55, 50, 48, 51, 54, 56, 53, 52, 55, 55, 53, 56, 48, 55 >>

\* The digits of -LLONG_MIN, 9223372036854775808.
LLongMinDigits == << 57, 50, 50, 51, 51, 55, 50, 48, 51, 54, 56, 53, 52, 55, 55, 53, 56, 48, 56 >>

\* The result of a conversion: the value, and the number of bytes consumed.
Converted(val, pos) == [ok |-> TRUE, err |-> NoError, val |-> val, pos |-> pos]

NotConverted(err) == [ok |-> FALSE, err |-> err, val |-> json_null, pos |-> 0]

\* std::stoll(str, &pos): white space, an optional sign, decimal digits.  No
\* digit: invalid_argument; a value outside long long: out_of_range.
stoll(str) ==
  LET Value(neg, limit, sig, end) ==
        IF Len(sig) > Len(limit) \/ (Len(sig) = Len(limit) /\ string_lt(limit, sig))
          THEN NotConverted(Error("stoll: out_of_range"))
          ELSE Converted(json_integer(IF neg THEN -DigitsValue(sig) ELSE DigitsValue(sig)),
                         end)
      Token(neg, d, t) ==                     \* the digits are str[d .. t - 1]
        IF t = d THEN NotConverted(Error("stoll: invalid_argument"))
        ELSE Value(neg, IF neg THEN LLongMinDigits ELSE LLongMaxDigits,
                   StripZeros(SubSeq(str, d, t - 1)), t - 1)
      Sign(neg, d) == Token(neg, d, DigitsEnd(str, d))
      Start(b, signed) == Sign(signed /\ str[b] = 45, IF signed THEN b + 1 ELSE b)
      Space(b) == Start(b, b <= Len(str) /\ str[b] \in {43, 45})
  IN  Space(SpaceEnd(str, 1))

\* Whether str holds the lower-case word at i, in either case.
HasWord(str, i, word) ==
  /\ i + Len(word) - 1 <= Len(str)
  /\ \A k \in 1..Len(word) : tolower(str[i + k - 1]) = word[k]

\* The decimal exponents of the largest and of the smallest normal double
\* (1.797...e308 and 2.225...e-308), and their leading four digits.
MaxExp10 == 308

MaxLead == 1797

MinExp10 == -308

MinLead == 2225

\* The leading four digits of the m of a normalised decimal (padded with zeros).
Lead4(m) ==
  LET ds == Digits(m)
  IN  DigitsValue(SubSeq(ds \o Zeros(4), 1, 4))

\* Whether strtod reports ERANGE for the decimal m * 10^e: it is above the
\* largest double or below the smallest normal one.
OutOfDoubleRange(m, e) ==
  LET x == Len(Digits(m)) - 1 + e   \* m * 10^e = d.ddd * 10^x
  IN  /\ m # 0
      /\ \/ x > MaxExp10
         \/ (x = MaxExp10 /\ Lead4(m) > MaxLead)
         \/ x < MinExp10
         \/ (x = MinExp10 /\ Lead4(m) < MinLead)

\* std::stod(str, &pos): white space, an optional sign, then "inf",
\* "infinity" or "nan" in either case, or decimal digits with an optional
\* '.', at least one digit, and an optional exponent, which is consumed only
\* with a digit in it.  No number: invalid_argument; ERANGE: out_of_range.
\* (The hexadecimal form 0x... and nan(...) are left out: no text of the
\* model holds an 'x' or a '('.)
stod(str) ==
  LET Value(dec, end) ==
        IF OutOfDoubleRange(dec.m, dec.e) THEN NotConverted(Error("stod: out_of_range"))
        ELSE Converted(json_double(dec), end - 1)
      \* the exponent's digits are str[x .. xe - 1]
      Exponent(neg, int, frac, f, eneg, x, xe, ev) ==
        IF int = <<>> /\ frac = <<>> THEN NotConverted(Error("stod: invalid_argument"))
        ELSE Value(Dec(neg, DigitsValue(StripZeros(int \o frac)),
                       (IF eneg THEN -ev ELSE ev) - Len(frac)),
                   IF xe > x THEN xe ELSE f)
      ExpDigits(neg, int, frac, f, eneg, x, xe) ==
        Exponent(neg, int, frac, f, eneg, x, xe,
                 IF xe > x THEN DigitsValue(StripZeros(SubSeq(str, x, xe - 1))) ELSE 0)
      ExpSign(neg, int, frac, f, hasE, eneg, x) ==
        ExpDigits(neg, int, frac, f, eneg, x, IF hasE THEN DigitsEnd(str, x) ELSE x)
      ExpMark(neg, int, frac, f, hasE, esigned) ==
        ExpSign(neg, int, frac, f, hasE, esigned /\ str[f + 1] = 45,
                IF esigned THEN f + 2 ELSE f + 1)
      \* the mantissa is str[d .. f - 1], its integer part str[d .. i - 1]
      Mantissa(neg, d, i, dot, f, hasE) ==
        ExpMark(neg, SubSeq(str, d, i - 1),
                IF dot THEN SubSeq(str, i + 1, f - 1) ELSE <<>>, f, hasE,
                hasE /\ f + 1 <= Len(str) /\ str[f + 1] \in {43, 45})
      Fraction(neg, d, i, dot, f) ==
        Mantissa(neg, d, i, dot, f, f <= Len(str) /\ str[f] \in {101, 69})
      Point(neg, d, i, dot) ==
        Fraction(neg, d, i, dot, IF dot THEN DigitsEnd(str, i + 1) ELSE i)
      Integer(neg, d, i) == Point(neg, d, i, i <= Len(str) /\ str[i] = 46)
      Sign(neg, d) ==
        IF HasWord(str, d, << 105, 110, 102, 105, 110, 105, 116, 121 >>)
          THEN Converted(json_double([cls |-> "inf", neg |-> neg, m |-> 0, e |-> 0]), d + 7)
        ELSE IF HasWord(str, d, << 105, 110, 102 >>)
          THEN Converted(json_double([cls |-> "inf", neg |-> neg, m |-> 0, e |-> 0]), d + 2)
        ELSE IF HasWord(str, d, << 110, 97, 110 >>)
          THEN Converted(json_double([cls |-> "nan", neg |-> neg, m |-> 0, e |-> 0]), d + 2)
        ELSE Integer(neg, d, DigitsEnd(str, d))
      Start(b, signed) == Sign(signed /\ str[b] = 45, IF signed THEN b + 1 ELSE b)
      Space(b) == Start(b, b <= Len(str) /\ str[b] \in {43, 45})
  IN  Space(SpaceEnd(str, 1))

\* parser::to_integer: the conversion must consume the whole text.
to_integer(str) ==
  LET Check(num) ==
        IF ~num.ok THEN num
        ELSE IF num.pos # Len(str)
          THEN NotConverted(Error("Unexpected number(integer) format."))
        ELSE num
  IN  Check(stoll(str))

\* parser::to_double without its test of the position: std::stod alone.
to_double_prefix(str) == stod(str)

\* parser::to_double: the conversion must consume the whole text.
to_double(str) ==
  LET Check(num) ==
        IF ~num.ok THEN num
        ELSE IF num.pos # Len(str)
          THEN NotConverted(Error("Unexpected number(double) format."))
        ELSE num
  IN  Check(stod(str))

\* A to_bool that reads the text as far as "true" or "false" goes.
to_bool_prefix(str) ==
  LET low == [i \in 1..Len(str) |-> tolower(str[i])]
  IN  IF Len(low) >= 4 /\ SubSeq(low, 1, 4) = << 116, 114, 117, 101 >>
        THEN Converted(json_bool(TRUE), 4)
      ELSE IF Len(low) >= 5 /\ SubSeq(low, 1, 5) = << 102, 97, 108, 115, 101 >>
        THEN Converted(json_bool(FALSE), 5)
      ELSE NotConverted(Error("invalid boolean string"))

\* parser::to_bool: the text in lower case is "true" or "false".
to_bool(str) ==
  LET low == [i \in 1..Len(str) |-> tolower(str[i])]
  IN  IF low = << 116, 114, 117, 101 >> THEN Converted(json_bool(TRUE), Len(str))
      ELSE IF low = << 102, 97, 108, 115, 101 >> THEN Converted(json_bool(FALSE), Len(str))
      ELSE NotConverted(Error("invalid boolean string"))

(***************************************************************************)
(* The cursor (parser::skip_space, peek_next_non_space,                    *)
(* get_next_non_space, skip_char)                                          *)
(***************************************************************************)

\* strm.peek(): the next code point, EOF at the end of the stream.
peek(s, pos) == IF pos > Len(s) THEN EOF ELSE s[pos]

\* The position after strm.get(): the stream does not move at its end.
advance(s, pos) == IF pos > Len(s) THEN pos ELSE pos + 1

\* parser::skip_space: the position of the first code point at or after pos
\* that is no white space.
RECURSIVE skip_space(_, _)
skip_space(s, pos) ==
  IF peek(s, pos) # EOF /\ isspace(peek(s, pos)) THEN skip_space(s, advance(s, pos)) ELSE pos

\* A peek_next_non_space that consumes the code point it returns.
peek_next_non_space_consuming(s, pos) ==
  LET p == skip_space(s, pos)
  IN  [c |-> peek(s, p), pos |-> advance(s, p)]

\* parser::peek_next_non_space: c is the code point returned, pos the
\* position the stream is left at.
peek_next_non_space(s, pos) ==
  LET p == skip_space(s, pos)
  IN  [c |-> peek(s, p), pos |-> p]

\* parser::get_next_non_space
get_next_non_space(s, pos) ==
  LET p == skip_space(s, pos)
  IN  [c |-> peek(s, p), pos |-> advance(s, p)]

\* The result of a parse routine: the value and the position the stream is
\* left at, or the exception and the position it was thrown at.
Parsed(val, pos) == [ok |-> TRUE, err |-> NoError, val |-> val, pos |-> pos]

Failed(err, pos) == [ok |-> FALSE, err |-> err, val |-> json_null, pos |-> pos]

\* A skip_char that takes the end of the stream for the expected code point.
skip_char_to_end(s, pos, expected) ==
  LET p == skip_space(s, pos)
      next == peek(s, p)
  IN  IF next # expected /\ next # EOF
        THEN Failed(Error("expected char not found"), p)
        ELSE Parsed(json_null, advance(s, p))

\* parser::skip_char: after white space, the expected code point is consumed;
\* any other code point, or the end of the stream, throws.
skip_char(s, pos, expected) ==
  LET p == skip_space(s, pos)
      next == peek(s, p)
  IN  IF next # expected \/ next = EOF
        THEN Failed(Error("expected char not found"), p)
        ELSE Parsed(json_null, advance(s, p))

(***************************************************************************)
(* The parser (class parser)                                               *)
(***************************************************************************)

\* What the local variable uc of parse_hex holds where it is declared,
\* unsigned int uc, with no initializer: an indeterminate value.
VARIABLE uc

\* The values uc is drawn from: U'A' and 0x7FFE.
Indeterminate == {65, 32766}

\* is >> std::hex >> uc, on a std::basic_stringstream<char32_t>: the standard
\* library has the facets the extraction needs (std::ctype, std::num_get)
\* for char and wchar_t only, so the extraction fails for every text, the
\* std::bad_cast caught inside it, and uc is left holding what it held.
extract_hex(cs, before) == before

\* parser::parse_hex: four code points, each a hexadecimal digit, collected
\* and handed to the extraction; c is the code point returned.
parse_hex(s, pos) ==
  LET bad == {i \in 0..3 : peek(s, pos + i) = EOF \/ ~isxdigit(peek(s, pos + i))}
  IN  IF bad # {}
        THEN [ok |-> FALSE, err |-> Error("not hex number"), c |-> 0,
              pos |-> advance(s, pos + (CHOOSE i \in bad : \A j \in bad : i <= j))]
        ELSE [ok |-> TRUE, err |-> NoError,
              c |-> extract_hex(SubSeq(s, pos, pos + 3), uc),
              pos |-> pos + 4]

\* parser::escape_char: the backslash, then the code point that selects the
\* character; c is the code point returned.
escape_char(s, pos) ==
  LET Char(x, p) == [ok |-> TRUE, err |-> NoError, c |-> x, pos |-> p]
      Select(c, p) ==
        CASE c = Quote -> Char(Quote, p)
          [] c = Backslash -> Char(Backslash, p)
          [] c = Slash -> Char(Slash, p)
          [] c = 98 -> Char(8, p)               \* b
          [] c = 102 -> Char(12, p)             \* f
          [] c = 110 -> Char(10, p)             \* n
          [] c = 114 -> Char(13, p)             \* r
          [] c = 116 -> Char(9, p)              \* t
          [] c = 117 -> parse_hex(s, p)         \* u
          [] OTHER -> [ok |-> FALSE, c |-> 0, pos |-> p,
                       err |-> Error("backslash is followed by invalid character")]
      Skipped(sk) ==
        IF ~sk.ok THEN [ok |-> FALSE, err |-> sk.err, c |-> 0, pos |-> sk.pos]
        ELSE Select(peek(s, sk.pos), advance(s, sk.pos))
  IN  Skipped(skip_char(s, pos, Backslash))

\* The loop of parse_string and of parse_member: the code points up to the
\* closing quote or the end of the stream, escapes replaced; val is the text
\* collected, as code points.
RECURSIVE string_loop(_, _, _)
string_loop(s, pos, acc) ==
  LET Escape(esc) ==
        IF ~esc.ok THEN [ok |-> FALSE, err |-> esc.err, val |-> acc, pos |-> esc.pos]
        ELSE string_loop(s, esc.pos, Append(acc, esc.c))
      Next(c) ==
        IF c = EOF \/ c = Quote
          THEN [ok |-> TRUE, err |-> NoError, val |-> acc, pos |-> pos]
        ELSE IF c = Backslash THEN Escape(escape_char(s, pos))
        ELSE string_loop(s, advance(s, pos), Append(acc, c))
  IN  Next(peek(s, pos))

\* parser::parse_string
parse_string(s, pos) ==
  LET Convert(close, u8) ==
        IF ~u8.ok THEN Failed(Error("invalid utf32 string"), close.pos)
        ELSE Parsed(json_string(u8.bytes), close.pos)
      Close(body, close) == IF ~close.ok THEN close ELSE Convert(close, U32ToU8(body.val))
      Body(body) ==
        IF ~body.ok THEN Failed(body.err, body.pos)
        ELSE Close(body, skip_char(s, body.pos, Quote))
      Open(open) == IF ~open.ok THEN open ELSE Body(string_loop(s, open.pos, <<>>))
  IN  Open(skip_char(s, pos, Quote))

\* parser::parse_member: the member name, a std::string, boxed as a json.
parse_member(s, pos) ==
  LET Convert(close, u8) ==
        IF ~u8.ok THEN Failed(Error("invalid utf32 string"), close.pos)
        ELSE Parsed(json_string(u8.bytes), close.pos)
      Close(body, close) == IF ~close.ok THEN close ELSE Convert(close, U32ToU8(body.val))
      Body(body) ==
        IF ~body.ok THEN Failed(body.err, body.pos)
        ELSE Close(body, skip_char(s, body.pos, Quote))
      Open(open) == IF ~open.ok THEN open ELSE Body(string_loop(s, open.pos, <<>>))
  IN  Open(skip_char(s, pos, Quote))

\* The delimiters that end a number, boolean or null token: , ] }
Delimiters == {Comma, RightBracket, RightBrace}

\* The loop of parse_number, parse_bool and parse_null: the position of the
\* next delimiter or of the end of the stream.
RECURSIVE token_end(_, _)
token_end(s, pos) ==
  IF peek(s, pos) # EOF /\ peek(s, pos) \notin Delimiters
    THEN token_end(s, advance(s, pos))
    ELSE pos

\* The characters of an integer token: "0123456789-".
IntegerChars == {Minus} \cup {c \in 48..57 : isdigit(c)}

\* The test of parse_number with "0123456789" for the set of characters.
is_integer_token_digits(nums) == \A i \in 1..Len(nums) : isdigit(nums[i])

\* Whether parse_number converts the trimmed token with to_integer:
\* nums.find_first_not_of("0123456789-") == npos.
is_integer_token(nums) == \A i \in 1..Len(nums) : nums[i] \in IntegerChars

\* parser::parse_number, from the token's end on: the token is converted to
\* UTF-8 and trimmed, and to_integer or to_double converts it.
number_convert(end, num) ==
  IF ~num.ok THEN Failed(num.err, end) ELSE Parsed(num.val, end)

number_trimmed(end, nums) ==
  number_convert(end, IF is_integer_token(nums) THEN to_integer(nums) ELSE to_double(nums))

number_token(end, u8) ==
  IF ~u8.ok THEN Failed(Error("invalid utf32 string"), end)
  ELSE number_trimmed(end, trim(u8.bytes))

\* parser::parse_number
parse_number(s, pos) ==
  number_token(token_end(s, pos), U32ToU8(SubSeq(s, pos, token_end(s, pos) - 1)))

\* parser::parse_bool
parse_bool(s, pos) ==
  LET Convert(end, val_bool) ==
        IF ~val_bool.ok THEN Failed(val_bool.err, end) ELSE Parsed(val_bool.val, end)
      Token(end, u8) ==
        IF ~u8.ok THEN Failed(Error("invalid utf32 string"), end)
        ELSE Convert(end, to_bool(trim(u8.bytes)))
      End(end) == Token(end, U32ToU8([i \in 1..(end - pos) |-> tolower(s[pos + i - 1])]))
  IN  End(token_end(s, pos))

\* parser::parse_null
parse_null(s, pos) ==
  LET Token(end, u8) ==
        IF ~u8.ok THEN Failed(Error("invalid utf32 string"), end)
        ELSE IF trim(u8.bytes) = << 110, 117, 108, 108 >> THEN Parsed(json_null, end)
        ELSE Failed(Error("unexpected null string"), end)
      End(end) == Token(end, U32ToU8([i \in 1..(end - pos) |-> tolower(s[pos + i - 1])]))
  IN  End(token_end(s, pos))

RECURSIVE parse_value(_, _), value_select(_, _), parse_object(_, _), object_open(_, _),
          object_loop(_, _, _), object_next(_, _, _), object_member(_, _, _),
          object_name(_, _, _, _), object_value(_, _, _, _), object_add(_, _, _),
          parse_array(_, _), array_open(_, _), array_first(_, _), array_loop(_, _, _)

\* parser::parse_value: the routine the next code point that is no white
\* space selects.
parse_value(s, pos) == value_select(s, peek_next_non_space(s, pos))

\* The switch of parse_value, look the code point peeked and where.
value_select(s, look) ==
  CASE look.c = Quote -> parse_string(s, look.pos)
    [] look.c = LeftBracket -> parse_array(s, look.pos)
    [] isdigit(look.c) \/ look.c = Minus \/ look.c = Dot -> parse_number(s, look.pos)
    [] look.c = LeftBrace -> parse_object(s, look.pos)
    [] look.c \in {84, 116, 70, 102} -> parse_bool(s, look.pos)     \* T t F f
    [] look.c \in {110, 78} -> parse_null(s, look.pos)               \* n N
    [] OTHER -> Failed(Error("unexpected character"), look.pos)

\* parser::parse_object
parse_object(s, pos) == object_open(s, skip_char(s, pos, LeftBrace))

\* parse_object after its opening brace.
object_open(s, open) ==
  IF ~open.ok THEN open ELSE object_loop(s, open.pos, json_object(<<>>))

\* The while loop of parse_object, entered with the stream at pos and the
\* members parsed so far in return_val; then the closing brace.
object_loop(s, pos, return_val) == object_next(s, return_val, peek_next_non_space(s, pos))

\* A turn of the loop that skips, as it skips a comma, any code point that
\* begins no member and ends no object.
object_next_skipping(s, return_val, look) ==
  IF look.c = EOF \/ look.c = RightBrace
    THEN LET Close(close) == IF ~close.ok THEN close ELSE Parsed(return_val, close.pos)
         IN  Close(skip_char(s, look.pos, RightBrace))
  ELSE IF look.c = Quote THEN object_member(s, return_val, parse_member(s, look.pos))
  ELSE object_loop(s, get_next_non_space(s, look.pos).pos, return_val)

\* One turn of the loop, look the code point peeked and where: a member, a
\* comma, the end of the loop, or a code point that is none of them.
object_next(s, return_val, look) ==
  IF look.c = EOF \/ look.c = RightBrace
    THEN LET Close(close) == IF ~close.ok THEN close ELSE Parsed(return_val, close.pos)
         IN  Close(skip_char(s, look.pos, RightBrace))
  ELSE IF look.c = Quote THEN object_member(s, return_val, parse_member(s, look.pos))
  ELSE IF look.c = Comma
    THEN object_loop(s, get_next_non_space(s, look.pos).pos, return_val)
  ELSE Failed(Error("invalid object format"), look.pos)

\* The member branch of the loop: the name parsed, the colon skipped, the
\* value parsed, the member added.
object_member(s, return_val, member) ==
  IF ~member.ok THEN member
  ELSE object_name(s, return_val, member, skip_char(s, member.pos, Colon))

object_name(s, return_val, member, colon) ==
  IF ~colon.ok THEN colon
  ELSE object_value(s, return_val, member, parse_value(s, colon.pos))

object_value(s, return_val, member, value) ==
  IF ~value.ok THEN value
  ELSE object_add(s, value, add_member(return_val, member.val.str, value.val))

\* An add_member in the loop after which only a comma or the closing brace
\* may come.
object_add_comma(s, value, added) ==
  IF ~added.ok THEN Failed(added.err, value.pos)
  ELSE IF peek_next_non_space(s, value.pos).c \notin {Comma, RightBrace, EOF}
    THEN Failed(Error("invalid object format"), peek_next_non_space(s, value.pos).pos)
  ELSE object_loop(s, value.pos, added.self)

object_add(s, value, added) ==
  IF ~added.ok THEN Failed(added.err, value.pos)
  ELSE object_loop(s, value.pos, added.self)

\* parser::parse_array
parse_array(s, pos) == array_open(s, skip_char(s, pos, LeftBracket))

\* parse_array after its opening bracket.
array_open(s, open) ==
  IF ~open.ok THEN open ELSE array_first(s, peek_next_non_space(s, open.pos))

\* The test for the empty array, look the code point peeked and where.
array_first(s, look) ==
  IF look.c = RightBracket
    THEN Parsed(json_array(<<>>), skip_char(s, look.pos, RightBracket).pos)
    ELSE array_loop(s, look.pos, <<>>)

\* The loop of parse_array with a test for the closing bracket after a comma.
array_loop_trailing(s, pos, vector_val) ==
  LET Close(elems, close) ==
        IF ~close.ok THEN close ELSE Parsed(json_array(elems), close.pos)
      After(elems, look) ==
        IF look.c = RightBracket THEN Close(elems, skip_char(s, look.pos, RightBracket))
        ELSE array_loop(s, look.pos, elems)
      Select(elems, c, p) ==
        IF c = Comma
          THEN After(elems, peek_next_non_space(s, skip_char(s, p, Comma).pos))
        ELSE IF c = RightBracket \/ c = EOF THEN Close(elems, skip_char(s, p, RightBracket))
        ELSE array_loop(s, p, elems)
      Look(elems, look) == Select(elems, look.c, look.pos)
      Value(value) ==
        IF ~value.ok THEN value
        ELSE Look(Append(vector_val, value.val), peek_next_non_space(s, value.pos))
  IN  Value(parse_value(s, pos))

\* The do-while loop of parse_array, entered with the stream at pos and the
\* elements parsed so far in vector_val; then the closing bracket.
array_loop(s, pos, vector_val) ==
  LET Close(elems, close) ==
        IF ~close.ok THEN close ELSE Parsed(json_array(elems), close.pos)
      Select(elems, c, p) ==
        IF c = Comma THEN array_loop(s, skip_char(s, p, Comma).pos, elems)
        ELSE IF c = RightBracket \/ c = EOF THEN Close(elems, skip_char(s, p, RightBracket))
        ELSE array_loop(s, p, elems)
      Look(elems, look) == Select(elems, look.c, look.pos)
      Value(value) ==
        IF ~value.ok THEN value
        ELSE Look(Append(vector_val, value.val), peek_next_non_space(s, value.pos))
  IN  Value(parse_value(s, pos))

\* parser::parse without its test for the end of the stream.
parse_rest_unchecked(ret_val, rest) == Parsed(ret_val.self, rest.pos)

\* parser::parse, from the root on: the root is assigned to ret_val, and
\* only white space may follow it.
parse_rest(ret_val, rest) ==
  IF rest.c # EOF THEN Failed(Error("invalid json format"), rest.pos)
  ELSE Parsed(ret_val.self, rest.pos)

parse_assign(s, root, ret_val) ==
  IF ~ret_val.ok THEN Failed(ret_val.err, root.pos)
  ELSE parse_rest(ret_val, peek_next_non_space(s, root.pos))

parse_root(s, root) ==
  IF ~root.ok THEN root ELSE parse_assign(s, root, json_assign(root.val))

\* parser::parse taking any value for the root.
parse_first_any(s, first) ==
  IF first.c = LeftBrace THEN parse_root(s, parse_object(s, first.pos))
  ELSE IF first.c = LeftBracket THEN parse_root(s, parse_array(s, first.pos))
  ELSE parse_root(s, parse_value(s, first.pos))

\* The first code point that is no white space selects parse_object or
\* parse_array; any other fails.
parse_first(s, first) ==
  IF first.c = LeftBrace THEN parse_root(s, parse_object(s, first.pos))
  ELSE IF first.c = LeftBracket THEN parse_root(s, parse_array(s, first.pos))
  ELSE Failed(Error("invalid json format"), first.pos)

\* parser::parse on the stream s.
parse_stream(s) == parse_first(s, peek_next_non_space(s, 1))

\* parser::parse: the outcomes the parse of the C string str may have, one for
\* each stream the buffer may deliver (one, for well-formed UTF-8).
parse(str) == {parse_stream(s) : s \in u32strm(str)}

(***************************************************************************)
(* The programs                                                            *)
(*                                                                         *)
(* Two clients drive the library, as the tests of src/test.cpp do.  The    *)
(* value program (Spec) holds one json, doc, and calls its methods; the    *)
(* parser program (SpecParse) is given a text and calls a parse routine on *)
(* it.  Each call is one step, and leaves in call what was called and in   *)
(* outcome, text or parsed what came back.                                 *)
(***************************************************************************)

VARIABLES
  doc,       \* the json the program holds
  written,   \* the add_member calls the parser program has made on doc, in order
  call,      \* the last call: the operation and its arguments
  outcome,   \* what the last method call on doc returned or threw
  text,      \* what the last to_string returned or threw
  parsed,    \* what the last parse routine returned or threw
  src,       \* the tokens the text given to the parser program is written with
  input,     \* the text given to the parser program
  heap,      \* the payloads allocated by new, by address (memory program)
  handles,   \* the json objects a and b of the memory program
  strm,      \* the stream of the cursor program: its position and the positions read
  freed,     \* the addresses of the payloads deleted, in order (lifetime program)
  frames     \* the calls of parse routines in progress, the innermost last (loop program)

vars == << doc, written, call, outcome, text, parsed, src, input, heap, handles, uc, strm, freed, frames >>

\* The bounds of the value program: the elements add_element may append.
MaxElems == 2

NoCall == [op |-> "", key |-> <<>>, val |-> json_null, index |-> 0, on |-> "", path |-> <<>>]

Call(op) == [NoCall EXCEPT !.op = op]

NoOutcome == Return(json_null, json_null)

NoParse == Parsed(json_null, 0)

\* No stream constructed.
NoStream == [pos |-> 0, got |-> <<>>]

\* The member names of the value program: "b" and "a".
Keys == {U(<< "b" >>), U(<< "a" >>)}

\* The scalars the value program constructs: json(), json(true), json(-3),
\* json(0.5), json(0.1234567), json(INFINITY), json("e' x") with a two-byte
\* character and a space in it, and json("\xff"), which is no UTF-8.
Scalars ==
  { json_null, json_bool(TRUE), json_integer(-3), json_double(Dec(FALSE, 5, -1)),
    json_double(Dec(FALSE, 1234567, -7)),
    json_double([cls |-> "inf", neg |-> FALSE, m |-> 0, e |-> 0]),
    json_string(U32ToU8(<< 233, 32, 120 >>).bytes), json_string(<< 255 >>) }

\* The values it adds as members and elements: the scalars, json(json_array{}),
\* the object {"k" : [7]}, and json(std::string("a\0b", 3)), a string with
\* a NUL in it.
Values ==
  Scalars \cup
  { json_array(<<>>), json_string(<< 97, 0, 98 >>),
    add_member(json_object(<<>>), U(<< "k" >>),
               add_element(json_array(<<>>), json_integer(7)).self).self }

\* The jsons it starts from: a scalar, json(json_array{}) or json(json_object{}).
Seeds == Scalars \cup {json_array(<<>>), json_object(<<>>)}

Init ==
  /\ doc \in Seeds
  /\ written = <<>>
  /\ call = NoCall
  /\ outcome = NoOutcome
  /\ text = NoText(NoError)
  /\ parsed = NoParse
  /\ src = <<>>
  /\ input = <<>>
  /\ heap = <<>>
  /\ handles = <<>>
  /\ uc = 0
  /\ strm = NoStream
  /\ freed = <<>>
  /\ frames = <<>>

\* A method call on doc: doc is what the call leaves, and the results of
\* earlier calls are dropped.
Method(c, out) ==
  /\ call' = c
  /\ outcome' = out
  /\ doc' = out.self
  /\ text' = NoText(NoError)
  /\ parsed' = NoParse
  /\ UNCHANGED << src, input, heap, handles, uc, strm, freed, frames >>

\* doc.add_member(k, v)
AddMember ==
  \E k \in Keys, v \in Values :
    /\ Method([Call("add_member") EXCEPT !.key = k, !.val = v], add_member(doc, k, v))
    /\ UNCHANGED written

\* doc.add_element(v)
AddElement ==
  \E v \in Values :
    /\ doc.type = "array" => Len(doc.arr) < MaxElems
    /\ Method([Call("add_element") EXCEPT !.val = v], add_element(doc, v))
    /\ UNCHANGED written

GetString == Method(Call("get_string"), get_string(doc)) /\ UNCHANGED written

GetInteger == Method(Call("get_integer"), get_integer(doc)) /\ UNCHANGED written

GetDouble == Method(Call("get_double"), get_double(doc)) /\ UNCHANGED written

GetBool == Method(Call("get_bool"), get_bool(doc)) /\ UNCHANGED written

GetObject == Method(Call("get_object"), get_object(doc)) /\ UNCHANGED written

GetArray == Method(Call("get_array"), get_array(doc)) /\ UNCHANGED written

GetNull == Method(Call("get_null"), get_null(doc)) /\ UNCHANGED written

Size == Method(Call("size"), size(doc)) /\ UNCHANGED written

HasMember ==
  \E k \in Keys :
    Method([Call("has_member") EXCEPT !.key = k], has_member(doc, k)) /\ UNCHANGED written

\* doc[k]
SubscriptKey ==
  \E k \in Keys :
    Method([Call("operator[](key)") EXCEPT !.key = k], subscript_key(doc, k))
      /\ UNCHANGED written

\* doc[i]
SubscriptIndex ==
  \E i \in -1..MaxElems :
    Method([Call("operator[](index)") EXCEPT !.index = i], subscript_index(doc, i))
      /\ UNCHANGED written

\* (std::string) doc, (double) doc, (long long) doc, (bool) doc
CastString == Method(Call("operator string"), to_std_string(doc)) /\ UNCHANGED written

CastDouble == Method(Call("operator double"), to_std_double(doc)) /\ UNCHANGED written

CastLongLong == Method(Call("operator long long"), to_long_long(doc)) /\ UNCHANGED written

CastBool == Method(Call("operator bool"), to_std_bool(doc)) /\ UNCHANGED written

\* doc.to_string()
Serialize ==
  /\ call' = Call("to_string")
  /\ text' = to_string(doc)
  /\ outcome' = NoOutcome
  /\ parsed' = NoParse
  /\ UNCHANGED << doc, written, src, input, heap, handles, uc, strm, freed, frames >>

\* parser::parse(a1.c_str()) of the text to_string returned
ParseText ==
  /\ call.op = "to_string"
  /\ text.ok
  /\ call' = Call("parse(to_string)")
  /\ parsed' \in parse(c_str(text.text))
  /\ UNCHANGED << doc, written, outcome, text, src, input, heap, handles, uc, strm, freed, frames >>

Next ==
  \/ AddMember
  \/ AddElement
  \/ GetString
  \/ GetInteger
  \/ GetDouble
  \/ GetBool
  \/ GetObject
  \/ GetArray
  \/ GetNull
  \/ Size
  \/ HasMember
  \/ SubscriptKey
  \/ SubscriptIndex
  \/ CastString
  \/ CastDouble
  \/ CastLongLong
  \/ CastBool
  \/ Serialize
  \/ ParseText

Spec == Init /\ [][Next]_vars

(***************************************************************************)
(* The parser program: a text, written with tokens, and the parse routines *)
(* called on it as the tests call them.  The texts are ASCII, so the bytes *)
(* of a text are its code points.  For an object text the program also     *)
(* writes the members of the text to doc, an empty object at first, with   *)
(* add_member, and serializes doc.                                         *)
(***************************************************************************)

\* The bounds of the parser program: the tokens of a document, the items
\* between the brackets of an array text, the members of an object text and
\* the characters of a number text.
MaxTokens == 3

MaxItems == 3

MaxMembers == 3

MaxNumLen == 3

\* The sequences of at most n elements of S.
SeqsUpTo(S, n) == UNION {[1..k -> S] : k \in 0..n}

Space == U(<< " " >>)

CommaToken == U(<< "," >>)

\* The values an array text is written with: 1 "a" [] {} true
ValueTokens ==
  { U(<< "1" >>), U(<< "\"", "a", "\"" >>), U(<< "[", "]" >>), U(<< "{", "}" >>),
    U(<< "t", "r", "u", "e" >>) }

\* The roots a document is written with, each a complete object or array.
RootTokens == { U(<< "{", "}" >>), U(<< "[", "1", "]" >>) }

\* The tokens of a document: white space, a root, and what is no root: x, a
\* number, a string, true, null.
DocTokens ==
  {Space} \cup RootTokens \cup
  { U(<< "x" >>), U(<< "1" >>), U(<< "\"", "a", "\"" >>), U(<< "t", "r", "u", "e" >>),
    U(<< "n", "u", "l", "l" >>) }

\* The characters of a number text.
NumberChars ==
  { U(<< "0" >>), U(<< "1" >>), U(<< "-" >>), U(<< "." >>), U(<< "e" >>), U(<< " " >>),
    U(<< "a" >>), U(<< "," >>) }

\* The member names of an object text, and the values, each token with the
\* json it denotes.
MemberKeys == { U(<< "b" >>), U(<< "a" >>), U(<< "a", "b" >>) }

MemberValues ==
  { [token |-> U(<< "1" >>), val |-> json_integer(1)],
    [token |-> U(<< "\"", "x", "\"" >>), val |-> json_string(U(<< "x" >>))] }

\* The tokens of the object text with the members ms: {"k":v,"k":v}
RECURSIVE MemberTokens(_)
MemberTokens(ms) ==
  IF ms = <<>> THEN <<>>
  ELSE << << Quote >> \o Head(ms).key \o << Quote >>, << Colon >>, Head(ms).value.token >>
         \o (IF Len(ms) > 1 THEN << CommaToken >> ELSE <<>>) \o MemberTokens(Tail(ms))

Source(family, tokens, members) ==
  [family |-> family, tokens |-> tokens, members |-> members]

Documents == {Source("document", ts, <<>>) : ts \in SeqsUpTo(DocTokens, MaxTokens)}

Arrays ==
  { Source("array", << << LeftBracket >> >> \o ts \o << << RightBracket >> >>, <<>>) :
      ts \in SeqsUpTo(ValueTokens \cup {CommaToken, Space}, MaxItems) }

Objects ==
  { Source("object", << << LeftBrace >> >> \o MemberTokens(ms) \o << << RightBrace >> >>, ms) :
      ms \in SeqsUpTo([key : MemberKeys, value : MemberValues], MaxMembers) }

Numbers == {Source("number", ts, <<>>) : ts \in SeqsUpTo(NumberChars, MaxNumLen)}

InitParse ==
  /\ src \in Documents \cup Arrays \cup Objects \cup Numbers
  /\ input = Flatten(src.tokens)
  /\ doc = json_object(<<>>)
  /\ written = <<>>
  /\ call = NoCall
  /\ outcome = NoOutcome
  /\ text = NoText(NoError)
  /\ parsed = NoParse
  /\ heap = <<>>
  /\ handles = <<>>
  /\ uc = 0
  /\ strm = NoStream
  /\ freed = <<>>
  /\ frames = <<>>

\* parser::parse(input)
Parse ==
  /\ src.family \in {"document", "array", "object"}
  /\ call' = Call("parse")
  /\ parsed' \in parse(input)
  /\ UNCHANGED << doc, written, outcome, text, src, input, heap, handles, uc, strm, freed, frames >>

\* parser::parse_array on a stream of the text
ParseArray ==
  /\ src.family = "array"
  /\ call' = Call("parse_array")
  /\ parsed' = parse_array(input, 1)
  /\ UNCHANGED << doc, written, outcome, text, src, input, heap, handles, uc, strm, freed, frames >>

\* parser::parse_number on a stream of the text
ParseNumber ==
  /\ src.family = "number"
  /\ call' = Call("parse_number")
  /\ parsed' = parse_number(input, 1)
  /\ UNCHANGED << doc, written, outcome, text, src, input, heap, handles, uc, strm, freed, frames >>

\* doc.add_member(key, value) for the next member of the object text: the
\* program writes to an empty object, in order, the members the text has.
WriteMember ==
  /\ src.family = "object"
  /\ Len(written) < Len(src.members)
  /\ \E m \in {src.members[Len(written) + 1]} :
       /\ call' = [Call("add_member") EXCEPT !.key = m.key, !.val = m.value.val]
       /\ outcome' = add_member(doc, m.key, m.value.val)
       /\ doc' = add_member(doc, m.key, m.value.val).self
       /\ written' = Append(written, [key |-> m.key, val |-> m.value.val])
  /\ text' = NoText(NoError)
  /\ parsed' = NoParse
  /\ UNCHANGED << src, input, heap, handles, uc, strm, freed, frames >>

NextParse ==
  \/ Parse
  \/ ParseArray
  \/ ParseNumber
  \/ WriteMember
  \/ Serialize

SpecParse == InitParse /\ [][NextParse]_vars

(***************************************************************************)
(* The json class in memory                                                *)
(*                                                                         *)
(* A json object is its two fields: _type, and _value, the address of the  *)
(* payload allocated by new (0 for nullptr).  The heap is the sequence of  *)
(* the payloads allocated, a payload at its address; the payload of an     *)
(* array holds json objects, the payload of an object holds entries whose  *)
(* value is a json object.  Nothing is freed: operator= does not delete    *)
(* the payload it replaces.                                                *)
(***************************************************************************)

Json(type, value) == [type |-> type, value |-> value]

\* new T(payload): the heap with the payload, and the json object that owns it.
new_payload(h, payload) ==
  [heap |-> Append(h, payload), self |-> Json(payload.type, Len(h) + 1)]

\* json::json(const json &other) and json::operator=: the payload is copied
\* to a new one, the elements of an array and the values of the entries of
\* an object by their own copy constructors (std::vector's and std::map's
\* copy constructors), one after the other.
RECURSIVE copy_json(_, _), copy_array(_, _, _), copy_object(_, _, _)
\* A copy that shares the payload: the pointer _value copied as it is.
copy_json_shared(h, other) == [heap |-> h, self |-> other]

copy_json(h, other) ==
  CASE other.type = "null" -> [heap |-> h, self |-> Json("null", 0)]
    [] other.type = "array" -> copy_array(h, h[other.value].arr, <<>>)
    [] other.type = "object" -> copy_object(h, h[other.value].obj, <<>>)
    [] OTHER -> new_payload(h, h[other.value])

copy_array(h, from, to) ==
  IF from = <<>> THEN new_payload(h, json_array(to))
  ELSE LET Then(elem) == copy_array(elem.heap, Tail(from), Append(to, elem.self))
       IN  Then(copy_json(h, Head(from)))

copy_object(h, from, to) ==
  IF from = <<>> THEN new_payload(h, json_object(to))
  ELSE LET Then(val) ==
             copy_object(val.heap, Tail(from),
                         Append(to, [key |-> Head(from).key, val |-> val.self]))
       IN  Then(copy_json(h, Head(from).val))

\* The json object a value given as an argument is copied to: the argument
\* is a json of its own, built by the constructors, and it is copied as
\* copy_json copies.
RECURSIVE copy_value(_, _), copy_elements(_, _, _), copy_members(_, _, _)
copy_value(h, v) ==
  CASE v.type = "null" -> [heap |-> h, self |-> Json("null", 0)]
    [] v.type = "array" -> copy_elements(h, v.arr, <<>>)
    [] v.type = "object" -> copy_members(h, v.obj, <<>>)
    [] OTHER -> new_payload(h, v)

copy_elements(h, from, to) ==
  IF from = <<>> THEN new_payload(h, json_array(to))
  ELSE LET Then(elem) == copy_elements(elem.heap, Tail(from), Append(to, elem.self))
       IN  Then(copy_value(h, Head(from)))

copy_members(h, from, to) ==
  IF from = <<>> THEN new_payload(h, json_object(to))
  ELSE LET Then(val) ==
             copy_members(val.heap, Tail(from),
                          Append(to, [key |-> Head(from).key, val |-> val.self]))
       IN  Then(copy_value(h, Head(from).val))

\* The value a json object in memory holds, as the getters read it.
RECURSIVE value_of(_, _)
value_of(h, j) ==
  CASE j.type = "null" -> json_null
    [] j.type = "array" ->
         json_array([i \in 1..Len(h[j.value].arr) |-> value_of(h, h[j.value].arr[i])])
    [] j.type = "object" ->
         json_object([i \in 1..Len(h[j.value].obj) |->
                        [key |-> h[j.value].obj[i].key,
                         val |-> value_of(h, h[j.value].obj[i].val)]])
    [] OTHER -> h[j.value]

\* A reference json &: the place of a json object, an element or the value
\* of an entry of the payload at an address, or (address 0) a handle.
Ref(at, pos) == [at |-> at, pos |-> pos]

\* The json object a reference names.
deref(h, hs, r) ==
  IF r.at = 0 THEN hs[r.pos]
  ELSE IF h[r.at].type = "array" THEN h[r.at].arr[r.pos]
  ELSE h[r.at].obj[r.pos].val

Referred(r) == [ok |-> TRUE, err |-> NoError, ref |-> r]

NotReferred(err) == [ok |-> FALSE, err |-> err, ref |-> Ref(0, "")]

\* json::operator[](const char *key) on the json object self: a reference to
\* the value of the entry.
ref_key(h, self, key) ==
  IF self.type # "object" THEN NotReferred(CHECK_TYPE_MISMATCH(self.type, "object"))
  ELSE IF map_find(h[self.value].obj, key) = 0 THEN NotReferred(Error("key not found."))
  ELSE Referred(Ref(self.value, map_find(h[self.value].obj, key)))

\* json::operator[](int index) on the json object self: a reference to the
\* element.
ref_index(h, self, index) ==
  IF self.type # "array" THEN NotReferred(CHECK_TYPE_MISMATCH(self.type, "array"))
  ELSE IF index < 0 \/ index >= Len(h[self.value].arr)
    THEN NotReferred(Error("index out of range."))
  ELSE Referred(Ref(self.value, index + 1))

\* A step of an access path: ["k"] or [i].
ByKey(key) == [by |-> "key", key |-> key, index |-> 0]

ByIndex(index) == [by |-> "index", key |-> <<>>, index |-> index]

\* r[s1][s2]...: the indexed accesses of a path applied one after the other,
\* from the json object the reference r names.
RECURSIVE ref_path(_, _, _, _)
ref_path(h, hs, r, path) ==
  IF path = <<>> THEN Referred(r)
  ELSE LET Then(next) == IF ~next.ok THEN next ELSE ref_path(h, hs, next.ref, Tail(path))
       IN  Then(IF Head(path).by = "key"
                  THEN ref_key(h, deref(h, hs, r), Head(path).key)
                  ELSE ref_index(h, deref(h, hs, r), Head(path).index))

\* The outcome of a call that changes memory.
Stored(h) == [ok |-> TRUE, err |-> NoError, heap |-> h]

NotStored(h, err) == [ok |-> FALSE, err |-> err, heap |-> h]

\* The entries of a map with the entry for the key set to the json object:
\* (*members)[member_name] = member_value.
members_assign(members, key, val) ==
  IF map_find(members, key) # 0 THEN [members EXCEPT ![map_find(members, key)].val = val]
  ELSE LET n == Cardinality({i \in 1..Len(members) : string_lt(members[i].key, key)})
       IN  SubSeq(members, 1, n) \o << [key |-> key, val |-> val] >>
             \o SubSeq(members, n + 1, Len(members))

\* json::add_member on the json object self, in memory.
stored_add_member(h, self, member_name, member_value) ==
  IF self.type # "object" THEN NotStored(h, CHECK_TYPE_MISMATCH(self.type, "object"))
  ELSE LET Assign(val) ==
             Stored([val.heap EXCEPT ![self.value].obj =
                       members_assign(h[self.value].obj, member_name, val.self)])
       IN  Assign(copy_value(h, member_value))

\* json::add_element on the json object self, in memory.
stored_add_element(h, self, elem) ==
  IF self.type # "array" THEN NotStored(h, CHECK_TYPE_MISMATCH(self.type, "array"))
  ELSE LET Push(val) ==
             Stored([val.heap EXCEPT ![self.value].arr = Append(h[self.value].arr, val.self)])
       IN  Push(copy_value(h, elem))

\* add_member at the outcome of indexed accesses that return a json by value:
\* the member is added to a copy of the json object the access names.
add_member_at_copy(h, hs, at, member_name, member_value) ==
  IF ~at.ok THEN NotStored(h, at.err)
  ELSE LET Then(copy) == stored_add_member(copy.heap, copy.self, member_name, member_value)
       IN  Then(copy_json(h, deref(h, hs, at.ref)))

\* self[s1][s2]....add_member(name, value) and ....add_element(elem), at the
\* outcome of the indexed accesses.
add_member_at(h, hs, at, member_name, member_value) ==
  IF ~at.ok THEN NotStored(h, at.err)
  ELSE stored_add_member(h, deref(h, hs, at.ref), member_name, member_value)

add_element_at(h, hs, at, elem) ==
  IF ~at.ok THEN NotStored(h, at.err)
  ELSE stored_add_element(h, deref(h, hs, at.ref), elem)

(***************************************************************************)
(* The memory program: two json objects, a and b, copied to each other and *)
(* changed through indexed accesses, as the tests of the constructors and  *)
(* of the class do.                                                        *)
(***************************************************************************)

\* The bounds of the memory program: the payloads allocated and the indexed
\* accesses of a path.
MaxCells == 4

MaxDepth == 2

Handles == {"a", "b"}

\* The member names, the values added and the steps of the paths.
MemoryKeys == { U(<< "k" >>) }

MemoryValues == { json_object(<<>>), json_array(<<>>) }

Steps == {ByKey(k) : k \in MemoryKeys} \cup {ByIndex(0)}

Paths == SeqsUpTo(Steps, MaxDepth)

\* What a is constructed from: json a(json_object{}), json a(json_array{}) or
\* json a(NAN).
MemorySeeds ==
  { json_object(<<>>), json_array(<<>>),
    json_double([cls |-> "nan", neg |-> FALSE, m |-> 0, e |-> 0]) }

\* json a(seed), and json b.
InitMemory ==
  /\ \E seed \in MemorySeeds :
       /\ heap = copy_value(<<>>, seed).heap
       /\ handles = [a |-> copy_value(<<>>, seed).self, b |-> Json("null", 0)]
  /\ doc = json_null
  /\ written = <<>>
  /\ call = NoCall
  /\ outcome = NoOutcome
  /\ text = NoText(NoError)
  /\ parsed = NoParse
  /\ src = <<>>
  /\ input = <<>>
  /\ uc = 0
  /\ strm = NoStream
  /\ freed = <<>>
  /\ frames = <<>>

\* What a call of the memory program leaves: the call, whether it threw, and
\* the heap.
Memory(c, stored) ==
  /\ call' = c
  /\ outcome' = IF stored.ok THEN NoOutcome ELSE Throw(json_null, stored.err)
  /\ heap' = stored.heap
  /\ UNCHANGED << doc, written, text, parsed, src, input, uc, strm, freed, frames >>

\* to = from, or json to(from)
Copy ==
  \E to \in Handles :
    \E from \in Handles \ {to} :
      \E copy \in {copy_json(heap, handles[from])} :
        /\ Len(copy.heap) <= MaxCells
        /\ Memory([Call("operator=") EXCEPT !.on = to], Stored(copy.heap))
        /\ handles' = [handles EXCEPT ![to] = copy.self]

\* to = json(from.get_object()) or json(from.get_array()): the container the
\* getter returns is a copy, and the constructor copies it.
Snapshot ==
  \E to \in Handles :
    \E from \in Handles \ {to} :
      \E getter \in {"object", "array"} :
        \E copy \in {copy_json(heap, handles[from])} :
          /\ Len(copy.heap) <= MaxCells
          /\ IF handles[from].type = getter
               THEN /\ Memory([Call("get_" \o getter) EXCEPT !.on = to], Stored(copy.heap))
                    /\ handles' = [handles EXCEPT ![to] = copy.self]
               ELSE /\ Memory([Call("get_" \o getter) EXCEPT !.on = to],
                               NotStored(heap, CHECK_TYPE_MISMATCH(handles[from].type, getter)))
                    /\ UNCHANGED handles

\* on[s1][s2]....add_member(k, v)
AddMemberAt ==
  \E on \in Handles, path \in Paths, k \in MemoryKeys, v \in MemoryValues :
    /\ Len(heap) < MaxCells
    /\ Memory([Call("add_member") EXCEPT !.on = on, !.path = path, !.key = k, !.val = v],
              add_member_at(heap, handles,
                            ref_path(heap, handles, Ref(0, on), path), k, v))
    /\ UNCHANGED handles

\* on[s1][s2]....add_element(v)
AddElementAt ==
  \E on \in Handles, path \in Paths, v \in MemoryValues :
    /\ Len(heap) < MaxCells
    /\ Memory([Call("add_element") EXCEPT !.on = on, !.path = path, !.val = v],
              add_element_at(heap, handles,
                             ref_path(heap, handles, Ref(0, on), path), v))
    /\ UNCHANGED handles

NextMemory ==
  \/ Copy
  \/ Snapshot
  \/ AddMemberAt
  \/ AddElementAt

SpecMemory == InitMemory /\ [][NextMemory]_vars

(***************************************************************************)
(* The lifetime program: the memory program, and at its end the json       *)
(* objects a and b destroyed.  The arguments passed by value and the       *)
(* values the getters return are constructed and destroyed within the      *)
(* call that makes them, and are not on the heap of the program.           *)
(***************************************************************************)

\* json::~json on the json object j: the addresses of the payloads deleted,
\* in order.  delete of the payload of an array or of an object destroys
\* the elements, or the values of the entries, before it releases the
\* payload; a json of kind null or invalid deletes nothing.
RECURSIVE destroy(_, _)
destroy(h, j) ==
  LET RECURSIVE DestroyAll(_)
      DestroyAll(js) ==
        IF js = <<>> THEN <<>> ELSE destroy(h, Head(js)) \o DestroyAll(Tail(js))
  IN  CASE j.type \in {"null", "invalid"} -> <<>>
        [] j.type = "array" -> DestroyAll(h[j.value].arr) \o << j.value >>
        [] j.type = "object" ->
             DestroyAll([i \in 1..Len(h[j.value].obj) |-> h[j.value].obj[i].val])
               \o << j.value >>
        [] OTHER -> << j.value >>

\* The program has not ended.
Alive == call.op # "~json"

\* to = from
Assign == Alive /\ Copy

\* to = json(from.get_object()) or json(from.get_array())
AssignSnapshot == Alive /\ Snapshot

\* on[s1][s2]....add_member(k, v)
Overwrite == Alive /\ AddMemberAt

\* on[s1][s2]....add_element(v)
Push == Alive /\ AddElementAt

\* The end of the scope of a and b: b is destroyed, then a.
Destroy ==
  /\ Alive
  /\ call' = Call("~json")
  /\ freed' = destroy(heap, handles.b) \o destroy(heap, handles.a)
  /\ UNCHANGED << doc, written, outcome, text, parsed, src, input, heap, handles, uc, strm, frames >>

NextLifetime ==
  \/ Assign
  \/ AssignSnapshot
  \/ Overwrite
  \/ Push
  \/ Destroy

SpecLifetime == InitMemory /\ [][NextLifetime]_vars

(***************************************************************************)
(* The comparison program: a json, and operator== and operator!= called on *)
(* it with another, as the test of the class does.                         *)
(***************************************************************************)

\* The bound of the comparison program: the elements of its arrays.
MaxWidth == 2

NaN == [cls |-> "nan", neg |-> FALSE, m |-> 0, e |-> 0]

\* The scalars compared: json(), json(true), json(false), json(1), json(2),
\* json(1.0), json(NAN), json(-0.0), json(0.0), json("a"), json("b").
Leaves ==
  { json_null, json_bool(TRUE), json_bool(FALSE), json_integer(1), json_integer(2),
    json_double(Dec(FALSE, 1, 0)), json_double(NaN), json_double(Dec(TRUE, 0, 0)),
    json_double(Dec(FALSE, 0, 0)), json_string(U(<< "a" >>)), json_string(U(<< "b" >>)) }

\* What the containers compared hold: 1, 1.0, NAN and the array [1].
Parts ==
  { json_integer(1), json_double(Dec(FALSE, 1, 0)), json_double(NaN),
    json_array(<< json_integer(1) >>) }

\* No member for a name.
Absent == [Blank EXCEPT !.type = "invalid"]

\* json_object{} with the members "b" and "a" added, each unless absent.
ObjectOf(b, a) ==
  LET WithA(j) == IF a = Absent THEN j ELSE add_member(j, U(<< "a" >>), a).self
  IN  WithA(IF b = Absent THEN json_object(<<>>)
            ELSE add_member(json_object(<<>>), U(<< "b" >>), b).self)

Comparands ==
  Leaves
    \cup {json_array(elems) : elems \in SeqsUpTo(Parts, MaxWidth)}
    \cup {ObjectOf(b, a) : b \in Parts \cup {Absent}, a \in Parts \cup {Absent}}

\* json doc(...)
InitCompare ==
  /\ doc \in Comparands
  /\ written = <<>>
  /\ call = NoCall
  /\ outcome = NoOutcome
  /\ text = NoText(NoError)
  /\ parsed = NoParse
  /\ src = <<>>
  /\ input = <<>>
  /\ heap = <<>>
  /\ handles = <<>>
  /\ uc = 0
  /\ strm = NoStream
  /\ freed = <<>>
  /\ frames = <<>>

\* doc == rhs
Equal ==
  \E rhs \in Comparands :
    /\ call' = [Call("operator==") EXCEPT !.val = rhs]
    /\ outcome' = Return(doc, json_bool(json_eq(doc, rhs)))
    /\ UNCHANGED << doc, written, text, parsed, src, input, heap, handles, uc, strm, freed, frames >>

\* doc != rhs
NotEqual ==
  \E rhs \in Comparands :
    /\ call' = [Call("operator!=") EXCEPT !.val = rhs]
    /\ outcome' = Return(doc, json_bool(json_ne(doc, rhs)))
    /\ UNCHANGED << doc, written, text, parsed, src, input, heap, handles, uc, strm, freed, frames >>

NextCompare ==
  \/ Equal
  \/ NotEqual

SpecCompare == InitCompare /\ [][NextCompare]_vars

(***************************************************************************)
(* The token program: the text of one token or of one container, well      *)
(* formed or not, and the parse routine for it called on a stream of the   *)
(* text, as the parsing tests and the parsing failure tests do.            *)
(***************************************************************************)

\* The bound of the string texts: the pieces between the quotes.
MaxPieces == 2

\* The pieces a string text is written with: a, the escapes \" \\ \/ \b \f
\* \n \r \t and \u0041, and what is no escape: \a, \u00A, \u0G41 and a
\* backslash with nothing written after it.
StringPieces ==
  { U(<< "a" >>), U(<< "\\", "\"" >>), U(<< "\\", "\\" >>), U(<< "\\", "/" >>),
    U(<< "\\", "b" >>), U(<< "\\", "f" >>), U(<< "\\", "n" >>), U(<< "\\", "r" >>),
    U(<< "\\", "t" >>), U(<< "\\", "u", "0", "0", "4", "1" >>),
    U(<< "\\", "a" >>), U(<< "\\", "u", "0", "0", "A" >>),
    U(<< "\\", "u", "0", "G", "4", "1" >>), U(<< "\\" >>) }

\* A string text: the opening quote, the pieces, and the closing quote or
\* the end of the text.
Strings ==
  { Source("string", << << Quote >> >> \o ps \o closing, <<>>) :
      ps \in SeqsUpTo(StringPieces, MaxPieces), closing \in { << << Quote >> >>, <<>> } }

\* The bound of the container texts: the elements of an array and the
\* members of an object.
MaxParts == 2

\* The elements an array text is written with, each token with the json it
\* denotes: 1 "a" [1] {"a":1}
Elements ==
  { [token |-> U(<< "1" >>), val |-> json_integer(1)],
    [token |-> U(<< "\"", "a", "\"" >>), val |-> json_string(U(<< "a" >>))],
    [token |-> U(<< "[", "1", "]" >>), val |-> json_array(<< json_integer(1) >>)],
    [token |-> U(<< "{", "\"", "a", "\"", ":", "1", "}" >>),
     val |-> json_object(<< [key |-> U(<< "a" >>), val |-> json_integer(1)] >>)] }

\* The member names of an object text, and the values, each token with the
\* json it denotes: 1 [1]
EntryKeys == { U(<< "b" >>), U(<< "a" >>) }

EntryValues ==
  { [token |-> U(<< "1" >>), val |-> json_integer(1)],
    [token |-> U(<< "[", "1", "]" >>), val |-> json_array(<< json_integer(1) >>)] }

\* The tokens of the array text with the elements es: [e,e]
RECURSIVE ElementsTokens(_)
ElementsTokens(es) ==
  IF es = <<>> THEN <<>>
  ELSE << Head(es).token >> \o (IF Len(es) > 1 THEN << CommaToken >> ELSE <<>>)
         \o ElementsTokens(Tail(es))

\* The well-formed texts: arrays and objects, as their tokens, with their
\* elements and their members.
ArrayTexts ==
  { Source("array", << << LeftBracket >> >> \o ElementsTokens(es) \o << << RightBracket >> >>,
           es) : es \in SeqsUpTo(Elements, MaxParts) }

ObjectTexts ==
  { Source("object", << << LeftBrace >> >> \o MemberTokens(ms) \o << << RightBrace >> >>, ms) :
      ms \in SeqsUpTo([key : EntryKeys, value : EntryValues], MaxParts) }

\* A well-formed text cut short: its first n characters, at least one and
\* not all of them.
Cuts ==
  UNION { { Source("cut", << SubSeq(Flatten(w.tokens), 1, n) >>, <<>>) :
              n \in 1..(Len(Flatten(w.tokens)) - 1) } : w \in ArrayTexts \cup ObjectTexts }

\* What a token of an object text is replaced by: 1 : , [ "a"
FaultTokens ==
  { U(<< "1" >>), << Colon >>, CommaToken, << LeftBracket >>, U(<< "\"", "a", "\"" >>) }

\* The tokens ts without the token at i, and with the token t in its place.
Without(ts, i) == SubSeq(ts, 1, i - 1) \o SubSeq(ts, i + 1, Len(ts))

Replaced(ts, i, t) == [ts EXCEPT ![i] = t]

\* An object text with a token after the opening brace left out or
\* replaced.
Faulty ==
  UNION { { Source("faulty", Without(w.tokens, i), w.members) : i \in 2..Len(w.tokens) }
            \cup { Source("faulty", Replaced(w.tokens, i, t), w.members) :
                     i \in 2..Len(w.tokens), t \in FaultTokens }
          : w \in ObjectTexts }

\* The bound of the literal texts: the pieces of a text.
MaxWords == 3

\* The pieces a literal text is written with: true tRue FALSE nUlL, a
\* space, x and the delimiters , ] }
LiteralPieces ==
  { U(<< "t", "r", "u", "e" >>), U(<< "t", "R", "u", "e" >>),
    U(<< "F", "A", "L", "S", "E" >>), U(<< "n", "U", "l", "L" >>),
    Space, U(<< "x" >>), CommaToken, << RightBracket >>, << RightBrace >> }

Literals == {Source("literal", ps, <<>>) : ps \in SeqsUpTo(LiteralPieces, MaxWords)}

InitTokens ==
  /\ src \in Strings \cup ArrayTexts \cup ObjectTexts \cup Cuts \cup Faulty \cup Literals
  /\ input = Flatten(src.tokens)
  /\ uc \in Indeterminate
  /\ strm = NoStream
  /\ freed = <<>>
  /\ frames = <<>>
  /\ doc = json_array(<<>>)
  /\ written = <<>>
  /\ call = NoCall
  /\ outcome = NoOutcome
  /\ text = NoText(NoError)
  /\ parsed = NoParse
  /\ heap = <<>>
  /\ handles = <<>>

\* What a call of the token program leaves.
Routine(c, result) ==
  /\ call' = c
  /\ parsed' = result
  /\ UNCHANGED << doc, written, outcome, text, src, input, heap, handles, uc, strm, freed, frames >>

\* parser::parse_string on a stream of the text
StringParsing ==
  /\ src.family = "string"
  /\ Routine(Call("parse_string"), parse_string(input, 1))

\* parser::parse_member on a stream of the text
MemberParsing ==
  /\ src.family = "string"
  /\ Routine(Call("parse_member"), parse_member(input, 1))

\* parser::parse_array on a stream of the text
ArrayParsing ==
  /\ src.family \in {"array", "cut"}
  /\ input[1] = LeftBracket
  /\ Routine(Call("parse_array"), parse_array(input, 1))

\* parser::parse_object on a stream of the text
ObjectParsing ==
  /\ src.family \in {"object", "cut", "faulty"}
  /\ input[1] = LeftBrace
  /\ Routine(Call("parse_object"), parse_object(input, 1))

\* parser::parse(input)
DocumentParsing ==
  /\ src.family \in {"array", "object", "cut", "faulty"}
  /\ \E result \in parse(input) : Routine(Call("parse"), result)

\* parser::parse_bool on a stream of the text
BoolParsing ==
  /\ src.family = "literal"
  /\ Routine(Call("parse_bool"), parse_bool(input, 1))

\* parser::parse_null on a stream of the text
NullParsing ==
  /\ src.family = "literal"
  /\ Routine(Call("parse_null"), parse_null(input, 1))

\* doc.add_element(value) for the next element of the array text: the
\* program writes to an empty array, in order, the elements the text has.
WriteElement ==
  /\ src.family = "array"
  /\ Len(written) < Len(src.members)
  /\ \E e \in {src.members[Len(written) + 1]} :
       /\ call' = [Call("add_element") EXCEPT !.val = e.val]
       /\ outcome' = add_element(doc, e.val)
       /\ doc' = add_element(doc, e.val).self
       /\ written' = Append(written, [key |-> <<>>, val |-> e.val])
  /\ UNCHANGED << text, parsed, src, input, heap, handles, uc, strm, freed, frames >>

NextTokens ==
  \/ WriteElement
  \/ StringParsing
  \/ MemberParsing
  \/ ArrayParsing
  \/ ObjectParsing
  \/ DocumentParsing
  \/ BoolParsing
  \/ NullParsing

SpecTokens == InitTokens /\ [][NextTokens]_vars

(***************************************************************************)
(* The cursor program: one stream over a text, and the cursor primitives   *)
(* and the parse routines called on it one after the other, each from      *)
(* where the call before it left the stream.                               *)
(***************************************************************************)

\* The bound of the cursor program: the pieces of its text.
MaxStream == 2

\* The pieces of the texts: a space, [ ] , } true, the string "\u0041\t",
\* and the opening of an object with the name of its first member, {"a": .
CursorPieces ==
  { U(<< " " >>), U(<< "[" >>), U(<< "]" >>), U(<< "," >>), U(<< "}" >>),
    U(<< "t", "r", "u", "e" >>),
    U(<< "\"", "\\", "u", "0", "0", "4", "1", "\\", "t", "\"" >>),
    U(<< "{", "\"", "a", "\"", ":" >>) }

\* u32_sstream strm(U"...")
InitCursor ==
  /\ src \in {Source("stream", ps, <<>>) : ps \in SeqsUpTo(CursorPieces, MaxStream)}
  /\ input = Flatten(src.tokens)
  /\ strm = [pos |-> 1, got |-> <<>>]
  /\ freed = <<>>
  /\ frames = <<>>
  /\ uc \in Indeterminate
  /\ doc = json_null
  /\ written = <<>>
  /\ call = NoCall
  /\ outcome = NoOutcome
  /\ text = NoText(NoError)
  /\ parsed = NoParse
  /\ heap = <<>>
  /\ handles = <<>>

\* What a call on the stream leaves: the call with the code point it
\* returned, what it returned or threw, the stream at the position the call
\* left it at, and the positions the call has read with strm.get() recorded.
Cursor(op, c, result) ==
  /\ call' = [Call(op) EXCEPT !.index = c]
  /\ parsed' = [ok |-> result.ok, err |-> result.err, pos |-> result.pos,
                val |-> IF "val" \in DOMAIN result THEN result.val ELSE json_null]
  /\ strm' = [pos |-> result.pos,
              got |-> strm.got
                        \o [i \in 1..(result.pos - strm.pos) |-> strm.pos + i - 1]]
  /\ UNCHANGED << doc, written, outcome, text, src, input, heap, handles, uc, freed, frames >>

\* What a parse routine called on the stream leaves.
RoutineAt(op, result) == Cursor(op, 0, result)

\* strm.peek()
Peek ==
  Cursor("peek", peek(input, strm.pos), Parsed(json_null, strm.pos))

\* strm.get()
Get ==
  Cursor("get", peek(input, strm.pos), Parsed(json_null, advance(input, strm.pos)))

\* parser::skip_space(strm)
SkipSpace ==
  Cursor("skip_space", 0, Parsed(json_null, skip_space(input, strm.pos)))

\* parser::peek_next_non_space(strm)
PeekNextNonSpace ==
  \E look \in {peek_next_non_space(input, strm.pos)} :
    Cursor("peek_next_non_space", look.c, Parsed(json_null, look.pos))

\* parser::get_next_non_space(strm)
GetNextNonSpace ==
  \E next \in {get_next_non_space(input, strm.pos)} :
    Cursor("get_next_non_space", next.c, Parsed(json_null, next.pos))

\* parser::skip_char(strm, expected)
SkipChar ==
  \E expected \in {Comma, Colon, RightBracket} :
    RoutineAt("skip_char", skip_char(input, strm.pos, expected))

\* parser::parse_hex(strm)
HexAt == RoutineAt("parse_hex", parse_hex(input, strm.pos))

\* parser::escape_char(strm)
EscapeAt == RoutineAt("escape_char", escape_char(input, strm.pos))

\* parser::parse_string(strm)
StringAt == RoutineAt("parse_string", parse_string(input, strm.pos))

\* parser::parse_member(strm)
MemberAt == RoutineAt("parse_member", parse_member(input, strm.pos))

\* parser::parse_number(strm)
NumberAt == RoutineAt("parse_number", parse_number(input, strm.pos))

\* parser::parse_bool(strm)
BoolAt == RoutineAt("parse_bool", parse_bool(input, strm.pos))

\* parser::parse_null(strm)
NullAt == RoutineAt("parse_null", parse_null(input, strm.pos))

\* parser::parse_array(strm)
ArrayAt == RoutineAt("parse_array", parse_array(input, strm.pos))

\* parser::parse_object(strm)
ObjectAt == RoutineAt("parse_object", parse_object(input, strm.pos))

\* parser::parse_value(strm)
ValueAt == RoutineAt("parse_value", parse_value(input, strm.pos))

NextCursor ==
  \/ Peek
  \/ Get
  \/ SkipSpace
  \/ PeekNextNonSpace
  \/ GetNextNonSpace
  \/ SkipChar
  \/ HexAt
  \/ EscapeAt
  \/ StringAt
  \/ MemberAt
  \/ NumberAt
  \/ BoolAt
  \/ NullAt
  \/ ArrayAt
  \/ ObjectAt
  \/ ValueAt

SpecCursor == InitCursor /\ [][NextCursor]_vars

(***************************************************************************)
(* The loop program: parser::parse run turn by turn.  A frame is a call of *)
(* a parse routine in progress, at the place pc of its code; a step is one *)
(* turn of a loop, or the code of a routine from one call or loop to the   *)
(* next.  The turns of skip_space are steps of their own, taken wherever a *)
(* routine is about to call peek_next_non_space, get_next_non_space or     *)
(* skip_char.                                                              *)
(***************************************************************************)

\* The bound of the loop program: the pieces of its text after the first.
MaxTurns == 2

\* The pieces of the texts: those of the cursor program, 1 and null.
LoopPieces == CursorPieces \cup { U(<< "1" >>), U(<< "n", "u", "l", "l" >>) }

\* What the texts begin with: [ , {"a": , or a space.
LoopOpenings == { U(<< "[" >>), U(<< "{", "\"", "a", "\"", ":" >>), U(<< " " >>) }

\* A frame: the place in the code, the position of the stream when the
\* loop of the routine was last at its head (mark), where its token began
\* (start), and its locals: the code points of a string or of a name (acc),
\* vector_val (vec), return_val (obj) and member (name).
Frame(pc) ==
  [pc |-> pc, mark |-> 0, start |-> 0, acc |-> <<>>, vec |-> <<>>,
   obj |-> json_object(<<>>), name |-> <<>>]

\* The frame at the head of its loop, the stream at pos.
AtHead(f, pc, pos) == [f EXCEPT !.pc = pc, !.mark = pos]

\* What a step does: it goes on in the frame, calls a routine, returns a
\* value to the caller, or throws; pos is where it leaves the stream.
Goto(f, pos) ==
  [to |-> "goto", frame |-> f, child |-> f, pos |-> pos, val |-> json_null, err |-> NoError]

Enter(f, child, pos) ==
  [to |-> "call", frame |-> f, child |-> child, pos |-> pos, val |-> json_null,
   err |-> NoError]

Leave(val, pos) ==
  [to |-> "return", frame |-> Frame(""), child |-> Frame(""), pos |-> pos, val |-> val,
   err |-> NoError]

Raise(err, pos) ==
  [to |-> "throw", frame |-> Frame(""), child |-> Frame(""), pos |-> pos,
   val |-> json_null, err |-> err]

\* The places where the code calls peek_next_non_space, get_next_non_space
\* or skip_char next, and the places at the head of a loop.
Skipping ==
  { "parse", "parse_rest", "value", "string_open", "string_close", "member_open",
    "member_close", "array_open", "array_first", "array_after", "array_close",
    "object_open", "object_loop", "object_colon", "object_close" }

LoopHeads ==
  { "string_loop", "member_loop", "number", "bool", "null", "array_elem", "object_loop" }

\* parser::parse: the first code point selects parse_object or parse_array;
\* the root is assigned to ret_val, and the stream must be at its end.
parse_turn(s, p, f, ret) ==
  IF f.pc = "parse"
    THEN CASE peek(s, p) = LeftBrace ->
                Enter([f EXCEPT !.pc = "parse_rest"], Frame("object_open"), p)
           [] peek(s, p) = LeftBracket ->
                Enter([f EXCEPT !.pc = "parse_rest"], Frame("array_open"), p)
           [] OTHER -> Raise(Error("invalid json format"), p)
  ELSE IF ~json_assign(ret).ok THEN Raise(json_assign(ret).err, p)
  ELSE IF peek(s, p) # EOF THEN Raise(Error("invalid json format"), p)
  ELSE Leave(json_assign(ret).self, p)

\* parser::parse_value: the switch on the code point peeked.
value_turn(s, p, f) ==
  LET c == peek(s, p)
  IN  CASE c = Quote -> Goto(Frame("string_open"), p)
        [] c = LeftBracket -> Goto(Frame("array_open"), p)
        [] isdigit(c) \/ c = Minus \/ c = Dot ->
             Goto([AtHead(f, "number", p) EXCEPT !.start = p], p)
        [] c = LeftBrace -> Goto(Frame("object_open"), p)
        [] c \in {84, 116, 70, 102} -> Goto([AtHead(f, "bool", p) EXCEPT !.start = p], p)
        [] c \in {110, 78} -> Goto([AtHead(f, "null", p) EXCEPT !.start = p], p)
        [] OTHER -> Raise(Error("unexpected character"), p)

\* parser::parse_string: the opening quote; a turn of the loop, which ends
\* at a quote or at the end of the stream, takes an escape, or takes a code
\* point; the closing quote and the conversion.
string_turn(s, p, f) ==
  LET Open(open) ==
        IF ~open.ok THEN Raise(open.err, open.pos)
        ELSE Goto(AtHead(f, "string_loop", open.pos), open.pos)
      Escape(esc) ==
        IF ~esc.ok THEN Raise(esc.err, esc.pos)
        ELSE Goto(AtHead([f EXCEPT !.acc = Append(f.acc, esc.c)], "string_loop", esc.pos),
                  esc.pos)
      Take(c, next) ==
        Goto(AtHead([f EXCEPT !.acc = Append(f.acc, c)], "string_loop", next), next)
      Convert(close, u8) ==
        IF ~u8.ok THEN Raise(Error("invalid utf32 string"), close.pos)
        ELSE Leave(json_string(u8.bytes), close.pos)
      Close(close) ==
        IF ~close.ok THEN Raise(close.err, close.pos) ELSE Convert(close, U32ToU8(f.acc))
  IN  CASE f.pc = "string_open" -> Open(skip_char(s, p, Quote))
        [] f.pc = "string_close" -> Close(skip_char(s, p, Quote))
        [] peek(s, p) = EOF \/ peek(s, p) = Quote -> Goto([f EXCEPT !.pc = "string_close"], p)
        [] peek(s, p) = Backslash -> Escape(escape_char(s, p))
        [] OTHER -> Take(peek(s, p), advance(s, p))

\* parser::parse_member, as parse_string; the name is returned as a json.
member_turn(s, p, f) ==
  LET Open(open) ==
        IF ~open.ok THEN Raise(open.err, open.pos)
        ELSE Goto(AtHead(f, "member_loop", open.pos), open.pos)
      Escape(esc) ==
        IF ~esc.ok THEN Raise(esc.err, esc.pos)
        ELSE Goto(AtHead([f EXCEPT !.acc = Append(f.acc, esc.c)], "member_loop", esc.pos),
                  esc.pos)
      Take(c, next) ==
        Goto(AtHead([f EXCEPT !.acc = Append(f.acc, c)], "member_loop", next), next)
      Convert(close, u8) ==
        IF ~u8.ok THEN Raise(Error("invalid utf32 string"), close.pos)
        ELSE Leave(json_string(u8.bytes), close.pos)
      Close(close) ==
        IF ~close.ok THEN Raise(close.err, close.pos) ELSE Convert(close, U32ToU8(f.acc))
  IN  CASE f.pc = "member_open" -> Open(skip_char(s, p, Quote))
        [] f.pc = "member_close" -> Close(skip_char(s, p, Quote))
        [] peek(s, p) = EOF \/ peek(s, p) = Quote -> Goto([f EXCEPT !.pc = "member_close"], p)
        [] peek(s, p) = Backslash -> Escape(escape_char(s, p))
        [] OTHER -> Take(peek(s, p), advance(s, p))

\* Whether the loop of parse_number, parse_bool and parse_null takes the
\* code point at p: it is no delimiter and the stream is not at its end.
in_token(s, p) == peek(s, p) # EOF /\ peek(s, p) \notin Delimiters

\* The texts of the loop program.
LoopTexts ==
  { Flatten(<< first >> \o ps) : first \in LoopOpenings, ps \in SeqsUpTo(LoopPieces, MaxTurns) }

\* The tokens the loops of parse_number, parse_bool and parse_null can have
\* read in a text: from a position to the next delimiter.
LoopTokens == UNION { {SubSeq(s, i, token_end(s, i) - 1) : i \in 1..Len(s)} : s \in LoopTexts }

\* parser::parse_number after its loop, as a function of the token read: the
\* token is converted to UTF-8 and trimmed, and to_integer or to_double
\* converts it.
number_read == [u32 \in LoopTokens |-> number_token(0, U32ToU8(u32))]

\* parser::parse_bool after its loop, as a function of the token read: the
\* token, in lower case, is converted to UTF-8 and trimmed, and to_bool
\* converts it.
bool_read ==
  [u32 \in LoopTokens |->
     LET Convert(val_bool) ==
           IF ~val_bool.ok THEN Failed(val_bool.err, 0) ELSE Parsed(val_bool.val, 0)
         Token(u8) ==
           IF ~u8.ok THEN Failed(Error("invalid utf32 string"), 0)
           ELSE Convert(to_bool(trim(u8.bytes)))
     IN  Token(U32ToU8([i \in 1..Len(u32) |-> tolower(u32[i])]))]

\* parser::parse_null after its loop, as a function of the token read: the
\* token, in lower case, is converted to UTF-8 and trimmed, and compared
\* with null.
null_read ==
  [u32 \in LoopTokens |->
     LET Token(u8) ==
           IF ~u8.ok THEN Failed(Error("invalid utf32 string"), 0)
           ELSE IF trim(u8.bytes) = << 110, 117, 108, 108 >> THEN Parsed(json_null, 0)
           ELSE Failed(Error("unexpected null string"), 0)
     IN  Token(U32ToU8([i \in 1..Len(u32) |-> tolower(u32[i])]))]

\* The end of parse_number, parse_bool and parse_null: the value is
\* returned, or the failure of the conversion is thrown.
token_read(read, p) == IF ~read.ok THEN Raise(read.err, p) ELSE Leave(read.val, p)

\* parser::parse_number: a turn of the loop takes a code point; after the
\* loop the token is converted.
number_turn(s, p, f) ==
  IF in_token(s, p) THEN Goto(AtHead(f, "number", advance(s, p)), advance(s, p))
  ELSE token_read(number_read[SubSeq(s, f.start, p - 1)], p)

\* parser::parse_bool: a turn of the loop takes a code point; after the loop
\* the token is converted.
bool_turn(s, p, f) ==
  IF in_token(s, p) THEN Goto(AtHead(f, "bool", advance(s, p)), advance(s, p))
  ELSE token_read(bool_read[SubSeq(s, f.start, p - 1)], p)

\* parser::parse_null: a turn of the loop takes a code point; after the loop
\* the token is compared with null.
null_turn(s, p, f) ==
  IF in_token(s, p) THEN Goto(AtHead(f, "null", advance(s, p)), advance(s, p))
  ELSE token_read(null_read[SubSeq(s, f.start, p - 1)], p)

\* parser::parse_array, after parse_value has returned an element: the
\* comma is skipped and the loop goes on, or the loop ends at ] and at the
\* end of the stream, or the loop goes on where the stream is.
array_after(s, p, f, ret) ==
  IF peek(s, p) = Comma
    THEN Goto(AtHead([f EXCEPT !.vec = Append(f.vec, ret)], "array_elem", advance(s, p)),
              advance(s, p))
  ELSE IF peek(s, p) = RightBracket \/ peek(s, p) = EOF
    THEN Goto([f EXCEPT !.vec = Append(f.vec, ret), !.pc = "array_close"], p)
  ELSE Goto(AtHead([f EXCEPT !.vec = Append(f.vec, ret)], "array_elem", p), p)

\* parser::parse_array: the opening bracket, the test for the empty array,
\* the call of parse_value at the head of the do-while loop, the turn after
\* it, and the closing bracket.
array_turn(s, p, f, ret) ==
  LET Open(open) ==
        IF ~open.ok THEN Raise(open.err, open.pos)
        ELSE Goto([f EXCEPT !.pc = "array_first"], open.pos)
      Close(close) ==
        IF ~close.ok THEN Raise(close.err, close.pos)
        ELSE Leave(json_array(f.vec), close.pos)
  IN  CASE f.pc = "array_open" -> Open(skip_char(s, p, LeftBracket))
        [] f.pc = "array_first" ->
             IF peek(s, p) = RightBracket
               THEN Leave(json_array(<<>>), skip_char(s, p, RightBracket).pos)
               ELSE Goto(AtHead(f, "array_elem", p), p)
        [] f.pc = "array_elem" -> Enter([f EXCEPT !.pc = "array_after"], Frame("value"), p)
        [] f.pc = "array_after" -> array_after(s, p, f, ret)
        [] OTHER -> Close(skip_char(s, p, RightBracket))

\* A turn of the loop of parse_object that peeks the comma and leaves it.
object_loop_peeking(s, p, f) ==
  IF peek(s, p) = EOF \/ peek(s, p) = RightBrace THEN Goto([f EXCEPT !.pc = "object_close"], p)
  ELSE IF peek(s, p) = Quote
    THEN Enter([f EXCEPT !.pc = "object_colon"], Frame("member_open"), p)
  ELSE IF peek(s, p) = Comma THEN Goto(AtHead(f, "object_loop", p), p)
  ELSE Raise(Error("invalid object format"), p)

\* A turn of the loop of parse_object, from its head: the loop ends at }
\* and at the end of the stream, a quote begins a member, a comma is taken,
\* and any other code point throws.
object_loop_turn(s, p, f) ==
  IF peek(s, p) = EOF \/ peek(s, p) = RightBrace THEN Goto([f EXCEPT !.pc = "object_close"], p)
  ELSE IF peek(s, p) = Quote
    THEN Enter([f EXCEPT !.pc = "object_colon"], Frame("member_open"), p)
  ELSE IF peek(s, p) = Comma
    THEN Goto(AtHead(f, "object_loop", advance(s, p)), advance(s, p))
  ELSE Raise(Error("invalid object format"), p)

\* parser::parse_object: the opening brace, the turn of the loop, the colon
\* after the name, add_member of the value parsed, and the closing brace.
object_turn(s, p, f, ret) ==
  LET Open(open) ==
        IF ~open.ok THEN Raise(open.err, open.pos)
        ELSE Goto(AtHead(f, "object_loop", open.pos), open.pos)
      Colon_(colon) ==
        IF ~colon.ok THEN Raise(colon.err, colon.pos)
        ELSE Enter([f EXCEPT !.pc = "object_value", !.name = ret.str], Frame("value"),
                   colon.pos)
      Add(added) ==
        IF ~added.ok THEN Raise(added.err, p)
        ELSE Goto(AtHead([f EXCEPT !.obj = added.self], "object_loop", p), p)
      Close(close) ==
        IF ~close.ok THEN Raise(close.err, close.pos) ELSE Leave(f.obj, close.pos)
  IN  CASE f.pc = "object_open" -> Open(skip_char(s, p, LeftBrace))
        [] f.pc = "object_loop" -> object_loop_turn(s, p, f)
        [] f.pc = "object_colon" -> Colon_(skip_char(s, p, Colon))
        [] f.pc = "object_value" -> Add(add_member(f.obj, f.name, ret))
        [] OTHER -> Close(skip_char(s, p, RightBrace))

\* parser::parse(text) called
InitLoops ==
  /\ src \in { Source("document", << first >> \o ps, <<>>) :
                 first \in LoopOpenings, ps \in SeqsUpTo(LoopPieces, MaxTurns) }
  /\ input = Flatten(src.tokens)
  /\ strm = [pos |-> 1, got |-> <<>>]
  /\ frames = << Frame("parse") >>
  /\ uc \in Indeterminate
  /\ doc = json_null
  /\ written = <<>>
  /\ call = NoCall
  /\ outcome = NoOutcome
  /\ text = NoText(NoError)
  /\ parsed = NoParse
  /\ heap = <<>>
  /\ handles = <<>>
  /\ freed = <<>>

\* The innermost call in progress.
Top == frames[Len(frames)]

\* What a step leaves: the frames, the stream where the step left it with
\* the positions it read, and what was returned or thrown.
Step(op, move) ==
  /\ call' = Call(op)
  /\ frames' = CASE move.to = "goto" -> [frames EXCEPT ![Len(frames)] = move.frame]
                 [] move.to = "call" ->
                      Append([frames EXCEPT ![Len(frames)] = move.frame], move.child)
                 [] move.to = "return" -> SubSeq(frames, 1, Len(frames) - 1)
                 [] OTHER -> <<>>
  /\ strm' = [pos |-> move.pos,
              got |-> strm.got \o [i \in 1..(move.pos - strm.pos) |-> strm.pos + i - 1]]
  /\ parsed' = CASE move.to = "return" -> Parsed(move.val, move.pos)
                 [] move.to = "throw" -> Failed(move.err, move.pos)
                 [] OTHER -> parsed
  /\ UNCHANGED << doc, written, outcome, text, src, input, heap, handles, uc, freed >>

\* The routine of the innermost call is at one of the places, and the white
\* space before a place that skips it has been skipped.
Ready(pcs) ==
  /\ frames # <<>>
  /\ Top.pc \in pcs
  /\ Top.pc \in Skipping => skip_space(input, strm.pos) = strm.pos

\* A turn of the loop of parser::skip_space: a white space is taken.
SkipSpaceTurn ==
  /\ frames # <<>>
  /\ Top.pc \in Skipping
  /\ skip_space(input, strm.pos) # strm.pos
  /\ \E move \in {Goto(Top, advance(input, strm.pos))} : Step("skip_space", move)

ParseTurn ==
  /\ Ready({"parse", "parse_rest"})
  /\ \E move \in {parse_turn(input, strm.pos, Top, parsed.val)} : Step("parse", move)

ValueTurn ==
  /\ Ready({"value"})
  /\ \E move \in {value_turn(input, strm.pos, Top)} : Step("parse_value", move)

StringTurn ==
  /\ Ready({"string_open", "string_loop", "string_close"})
  /\ \E move \in {string_turn(input, strm.pos, Top)} : Step("parse_string", move)

MemberTurn ==
  /\ Ready({"member_open", "member_loop", "member_close"})
  /\ \E move \in {member_turn(input, strm.pos, Top)} : Step("parse_member", move)

NumberTurn ==
  /\ Ready({"number"})
  /\ \E move \in {number_turn(input, strm.pos, Top)} : Step("parse_number", move)

BoolTurn ==
  /\ Ready({"bool"})
  /\ \E move \in {bool_turn(input, strm.pos, Top)} : Step("parse_bool", move)

NullTurn ==
  /\ Ready({"null"})
  /\ \E move \in {null_turn(input, strm.pos, Top)} : Step("parse_null", move)

ArrayTurn ==
  /\ Ready({"array_open", "array_first", "array_elem", "array_after", "array_close"})
  /\ \E move \in {array_turn(input, strm.pos, Top, parsed.val)} : Step("parse_array", move)

ObjectTurn ==
  /\ Ready({"object_open", "object_loop", "object_colon", "object_value", "object_close"})
  /\ \E move \in {object_turn(input, strm.pos, Top, parsed.val)} : Step("parse_object", move)

NextLoops ==
  \/ SkipSpaceTurn
  \/ ParseTurn
  \/ ValueTurn
  \/ StringTurn
  \/ MemberTurn
  \/ NumberTurn
  \/ BoolTurn
  \/ NullTurn
  \/ ArrayTurn
  \/ ObjectTurn

SpecLoops == InitLoops /\ [][NextLoops]_vars

\* The program runs while a step can be taken: parser::parse is one call,
\* and nothing else runs.
FairLoops == SpecLoops /\ WF_vars(NextLoops)

(***************************************************************************)
(* The comma program: object texts whose members stand with any number of  *)
(* commas before, between and after them, parsed by parse_object and by    *)
(* parse.                                                                  *)
(***************************************************************************)

\* The bound of the comma program: the members of an object text.
MaxEntries == 2

\* The members of the texts, each value a string, an array or an object:
\* "a":"x"  "a":[1]  "b":{}
CommaMembers ==
  { [key |-> U(<< "a" >>), token |-> U(<< "\"", "x", "\"" >>)],
    [key |-> U(<< "a" >>), token |-> U(<< "[", "1", "]" >>)],
    [key |-> U(<< "b" >>), token |-> U(<< "{", "}" >>)] }

\* What stands before, between and after the members: nothing, a space, a
\* comma, two commas.
Separators == { <<>>, Space, CommaToken, CommaToken \o CommaToken }

\* The text of a member: "key":value
EntryText(member) == << Quote >> \o member.key \o << Quote, Colon >> \o member.token

\* The tokens of the object text of the members ms, seps[i] before member i
\* and the last of seps after the last member.
CommaTokens(ms, seps) ==
  << << LeftBrace >> >>
    \o [i \in 1..(2 * Len(ms) + 1) |->
          IF i % 2 = 1 THEN seps[(i + 1) \div 2] ELSE EntryText(ms[i \div 2])]
    \o << << RightBrace >> >>

\* An object text is given: members, and what stands around them.
InitCommas ==
  /\ src \in UNION { { Source("commas", CommaTokens(ms, seps), ms) :
                         seps \in [1..(Len(ms) + 1) -> Separators] } :
                     ms \in SeqsUpTo(CommaMembers, MaxEntries) }
  /\ input = Flatten(src.tokens)
  /\ uc = 0
  /\ strm = NoStream
  /\ freed = <<>>
  /\ frames = <<>>
  /\ doc = json_null
  /\ written = <<>>
  /\ call = NoCall
  /\ outcome = NoOutcome
  /\ text = NoText(NoError)
  /\ parsed = NoParse
  /\ heap = <<>>
  /\ handles = <<>>

\* parser::parse_object on a stream of the text
ObjectTextParsing == Routine(Call("parse_object"), parse_object(input, 1))

\* parser::parse(input)
TextParsing == \E result \in parse(input) : Routine(Call("parse"), result)

NextCommas ==
  \/ ObjectTextParsing
  \/ TextParsing

SpecCommas == InitCommas /\ [][NextCommas]_vars

(***************************************************************************)
(* The claims                                                              *)
(***************************************************************************)

\* Whether a text holds no double quote, no backslash and no control character.
PlainText(str) == \A i \in 1..Len(str) : str[i] \notin {34, 92, 127} /\ str[i] >= 32

\* Whether the string payloads and the object keys of v are plain text.
RECURSIVE PlainStrings(_)
PlainStrings(v) ==
  CASE v.type = "string" -> PlainText(v.str)
    [] v.type = "array" -> \A i \in 1..Len(v.arr) : PlainStrings(v.arr[i])
    [] v.type = "object" ->
         \A i \in 1..Len(v.obj) : PlainText(v.obj[i].key) /\ PlainStrings(v.obj[i].val)
    [] OTHER -> TRUE

\* Whether a text is well-formed UTF-8.
Utf8Text(str) == U32ToU8(from_utf8(str)).bytes = str

\* Whether a double is finite and is the number its "%f" text denotes.
ExactDouble(d) ==
  /\ d.cls = "finite"
  /\ stod(double_to_string(d)).ok
  /\ double_eq(stod(double_to_string(d)).val.dbl, d)

\* Whether the string payloads and the object keys of v are UTF-8 and its
\* doubles exact.
RECURSIVE ExactPayloads(_)
ExactPayloads(v) ==
  CASE v.type = "string" -> Utf8Text(v.str)
    [] v.type = "number_double" -> ExactDouble(v.dbl)
    [] v.type = "array" -> \A i \in 1..Len(v.arr) : ExactPayloads(v.arr[i])
    [] v.type = "object" ->
         \A i \in 1..Len(v.obj) : Utf8Text(v.obj[i].key) /\ ExactPayloads(v.obj[i].val)
    [] OTHER -> TRUE

FirstNonSpace(str) ==
  IF \A i \in 1..Len(str) : isspace(str[i]) THEN EOF
  ELSE str[CHOOSE i \in 1..Len(str) :
             ~isspace(str[i]) /\ \A j \in 1..(i - 1) : isspace(str[j])]

\* Whether the tokens are white space up to the k-th, which is a root.
RootAt(ts, k) ==
  /\ k \in 1..Len(ts)
  /\ ts[k] \in RootTokens
  /\ \A i \in 1..(k - 1) : ts[i] = Space

\* C2: parse fails with "invalid json format" on every text whose first code
\* point that is no white space is neither { nor [, the empty text, white
\* space alone and a bare string, number, boolean or null among them; and it
\* accepts a root after leading white space.
C2_RootOpens ==
  call.op = "parse" =>
    /\ FirstNonSpace(input) \notin {LeftBrace, LeftBracket}
         => (~parsed.ok /\ parsed.err = Error("invalid json format"))
    /\ (src.family = "document" /\ RootAt(src.tokens, Len(src.tokens))) => parsed.ok

\* parse has failed on a bare number after white space, and on the text of
\* white space alone.
C2_Witness ==
  /\ call.op = "parse"
  /\ src.tokens \in { << Space, U(<< "1" >>) >>, << Space, Space >> }
  /\ ~parsed.ok

\* C3: when the text is a complete root after white space and then a rest,
\* parse succeeds if the rest is white space or nothing, and fails if the
\* rest holds a code point that is no white space.
C3_TrailingContent ==
  (call.op = "parse" /\ src.family = "document") =>
    \A k \in 1..Len(src.tokens) :
      RootAt(src.tokens, k) =>
        (parsed.ok <=> \A i \in (k + 1)..Len(src.tokens) : src.tokens[i] = Space)

\* parse has failed on {} x
C3_Witness ==
  /\ call.op = "parse"
  /\ src.tokens = << U(<< "{", "}" >>), Space, U(<< "x" >>) >>
  /\ ~parsed.ok
  /\ parsed.err = Error("invalid json format")

IsNoSpace(t) == t # Space

\* The items of an array text: the tokens between its brackets that are no
\* white space.
Items == SelectSeq(SubSeq(src.tokens, 2, Len(src.tokens) - 1), IsNoSpace)

NumberToken == U(<< "1" >>)

\* C4 as stated: parse_array fails on every array text in which an element is
\* followed, white space ignored, by the start of another value and not by
\* a comma or the closing bracket.  (An element that is a number is left
\* out: its token runs on to the next comma or bracket.)
C4_SeparatorRequired ==
  (/\ call.op = "parse_array"
   /\ \E i \in 1..(Len(Items) - 1) :
        Items[i] \in ValueTokens \ {NumberToken} /\ Items[i + 1] \in ValueTokens)
    => ~parsed.ok

\* Whether the items are n values separated by commas, with no comma before
\* the first and none after the last.
CommaSeparated(items) ==
  \/ items = <<>>
  \/ /\ Len(items) % 2 = 1
     /\ \A i \in 1..Len(items) :
          IF i % 2 = 1 THEN items[i] \in ValueTokens ELSE items[i] = CommaToken

\* C5: parse and parse_array fail on every array text whose last comma is
\* followed, white space ignored, by the closing bracket, and on every array
\* text with a comma before the first element; the text of n values
\* separated by commas parses to an array of size n.
C5_Commas ==
  (call.op \in {"parse", "parse_array"} /\ src.family = "array") =>
    /\ (Items # <<>> /\ Items[Len(Items)] = CommaToken) => ~parsed.ok
    /\ (Items # <<>> /\ Items[1] = CommaToken) => ~parsed.ok
    /\ CommaSeparated(Items) =>
         /\ parsed.ok
         /\ parsed.val.type = "array"
         /\ size(parsed.val).ret = json_integer((Len(Items) + 1) \div 2)

\* parse_array has failed on an array text of two values and a trailing
\* comma.
C5_Witness ==
  /\ call.op = "parse_array"
  /\ Len(Items) = 3
  /\ Items[1] \in ValueTokens
  /\ Items[2] = CommaToken
  /\ Items[3] = CommaToken
  /\ ~parsed.ok

\* The writes an object text stands for: the name and the value of each of
\* its members, in order.
Writes(ms) == [i \in 1..Len(ms) |-> [key |-> ms[i].key, val |-> ms[i].value.val]]

WrittenKeys(ws) == {ws[i].key : i \in 1..Len(ws)}

\* The value of the most recent write to the key k.
LastWrite(ws, k) ==
  ws[CHOOSE i \in 1..Len(ws) :
       ws[i].key = k /\ \A j \in (i + 1)..Len(ws) : ws[j].key # k].val

\* Whether the object j holds the writes ws: its size is the number of
\* distinct keys written and [k] is the last value written to k.
HoldsWrites(j, ws) ==
  /\ j.type = "object"
  /\ size(j).ret = json_integer(Cardinality(WrittenKeys(ws)))
  /\ \A k \in WrittenKeys(ws) :
       /\ subscript_key(j, k).ok
       /\ json_eq(subscript_key(j, k).ret, LastWrite(ws, k))

\* C6: after any sequence of add_member calls on an empty object, and after
\* the parse of an object text with the same members, repeated names among
\* them, size() is the number of distinct keys written and [k] returns the
\* value of the most recent write to k.
C6_LastWriteWins ==
  src.family = "object" =>
    /\ HoldsWrites(doc, written)
    /\ call.op = "parse" => (parsed.ok /\ HoldsWrites(parsed.val, Writes(src.members)))

\* Three add_member calls, the third to the key of the first with another
\* value, have left two members.
C6_Witness ==
  /\ call.op = "add_member"
  /\ Len(written) = 3
  /\ written[1].key = written[3].key
  /\ written[1].val # written[3].val
  /\ written[2].key # written[1].key
  /\ size(doc).ret = json_integer(2)

\* Whether the keys of the writes are pairwise distinct.
DistinctKeys(ws) == Cardinality(WrittenKeys(ws)) = Len(ws)

\* The writes in ascending order of their keys, compared byte by byte.
Ascending(ws) ==
  CHOOSE seq \in [1..Len(ws) -> {ws[i] : i \in 1..Len(ws)}] :
    \A i, j \in 1..Len(ws) : i < j => string_lt(seq[i].key, seq[j].key)

\* The text of the members ms in the order given: "key" : value,"key" : value
RECURSIVE MembersText(_)
MembersText(ms) ==
  IF ms = <<>> THEN <<>>
  ELSE << Quote >> \o Head(ms).key \o << Quote >> \o Space \o << Colon >> \o Space
         \o to_string(Head(ms).val).text
         \o (IF Len(ms) > 1 THEN << Comma >> ELSE <<>>) \o MembersText(Tail(ms))

\* C7: for an object built by add_member calls with pairwise distinct keys,
\* to_string returns the members in ascending lexicographic order of their
\* keys, whatever the order of the calls: the text is that of the set of
\* members written.
C7_KeyOrder ==
  (call.op = "to_string" /\ src.family = "object" /\ DistinctKeys(written)) =>
    /\ text.ok
    /\ text.text = << LeftBrace >> \o MembersText(Ascending(written)) \o << RightBrace >>

\* An object written in the order b, ab, a has been serialized.
C7_Witness ==
  /\ call.op = "to_string"
  /\ Len(written) = 3
  /\ written[1].key = U(<< "b" >>)
  /\ written[2].key = U(<< "a", "b" >>)
  /\ written[3].key = U(<< "a" >>)
  /\ text.ok

\* The token of a number text: the characters before the first , ] or }.
NumberText(str) ==
  IF \E i \in 1..Len(str) : str[i] \in {Comma, RightBracket, RightBrace}
    THEN SubSeq(str, 1, (CHOOSE i \in 1..Len(str) :
                           /\ str[i] \in {Comma, RightBracket, RightBrace}
                           /\ \A j \in 1..(i - 1) :
                                str[j] \notin {Comma, RightBracket, RightBrace}) - 1)
    ELSE str

\* The trimmed token of the text given to parse_number.
Token == trim(NumberText(input))

AllDigits(str) == \A i \in 1..Len(str) : str[i] \in 48..57

SomeDigits(str) == str # <<>> /\ AllDigits(str)

Signed(str) == str # <<>> /\ str[1] \in {43, Minus}

\* digits, digits.digits, digits. or .digits
IsMantissa(str) ==
  \/ SomeDigits(str)
  \/ \E k \in 1..Len(str) :
       /\ str[k] = Dot
       /\ AllDigits(SubSeq(str, 1, k - 1))
       /\ AllDigits(SubSeq(str, k + 1, Len(str)))
       /\ Len(str) > 1

\* digits, +digits or -digits
IsExponent(str) == SomeDigits(str) \/ (Signed(str) /\ SomeDigits(Tail(str)))

\* A mantissa, or a mantissa, e or E and an exponent.
IsUnsigned(str) ==
  \/ IsMantissa(str)
  \/ \E k \in 1..Len(str) :
       /\ str[k] \in {101, 69}
       /\ IsMantissa(SubSeq(str, 1, k - 1))
       /\ IsExponent(SubSeq(str, k + 1, Len(str)))

\* Whether a text is a decimal literal, signed or not.
IsNumber(str) == IsUnsigned(str) \/ (Signed(str) /\ IsUnsigned(Tail(str)))

\* Whether a text is digits, or - and digits.
IsInteger(str) == SomeDigits(str) \/ (str # <<>> /\ str[1] = Minus /\ SomeDigits(Tail(str)))

\* The number the digits denote.
RECURSIVE Decimal(_)
Decimal(ds) == IF ds = <<>> THEN 0 ELSE 10 * Decimal(SubSeq(ds, 1, Len(ds) - 1)) + (ds[Len(ds)] - 48)

IntegerValue(str) == IF str[1] = Minus THEN -Decimal(Tail(str)) ELSE Decimal(str)

\* C8: parse_number classifies by the characters of the trimmed token only.
\* What it returns is an integer when the token holds only 0-9 and -, and a
\* double when it holds a point, an exponent marker or any other character;
\* digits with or without a leading - parse to the integer they denote, and
\* a decimal literal with a point or an exponent parses to a double.
C8_NumberKind ==
  call.op = "parse_number" =>
    /\ parsed.ok =>
         parsed.val.type = (IF \A i \in 1..Len(Token) : Token[i] \in 48..57 \cup {Minus}
                              THEN "number_integer" ELSE "number_double")
    /\ IsInteger(Token) => (parsed.ok /\ parsed.val = json_integer(IntegerValue(Token)))
    /\ (IsNumber(Token) /\ ~IsInteger(Token)) =>
         (parsed.ok /\ parsed.val.type = "number_double")

\* parse_number has returned the integer -1 for one text and a double for a
\* text with a point.
C8_Witness ==
  /\ call.op = "parse_number"
  /\ parsed.ok
  /\ \/ Token = << Minus, 49 >> /\ parsed.val = json_integer(-1)
     \/ Token = << 49, Dot, 48 >> /\ parsed.val.type = "number_double"

\* C9: parse_number fails on every text whose trimmed token is no decimal
\* literal, so that a conversion would stop before its end: a bare -, a
\* token with white space inside, a token with a suffix that is no number.
C9_WholeToken ==
  (call.op = "parse_number" /\ ~IsNumber(Token)) => ~parsed.ok

\* parse_number has failed on the token 1 0, and on 1a.
C9_Witness ==
  /\ call.op = "parse_number"
  /\ Token \in { << 49, 32, 48 >>, << 49, 97 >> }
  /\ ~parsed.ok
  /\ parsed.err = Error("Unexpected number(double) format.")

\* The kinds each typed operation requires of the json it is called on.
Required ==
  [ op \in { "get_string", "get_integer", "get_double", "get_bool", "get_object",
             "get_array", "get_null", "size", "has_member", "add_member", "add_element",
             "operator[](key)", "operator[](index)", "operator string",
             "operator double", "operator long long", "operator bool" } |->
      CASE op \in {"get_string", "operator string"} -> {"string"}
        [] op \in {"get_integer", "operator long long"} -> {"number_integer"}
        [] op \in {"get_double", "operator double"} -> {"number_double"}
        [] op \in {"get_bool", "operator bool"} -> {"boolean"}
        [] op \in {"get_object", "has_member", "add_member", "operator[](key)"} -> {"object"}
        [] op \in {"get_array", "add_element", "operator[](index)"} -> {"array"}
        [] op = "get_null" -> {"null"}
        [] op = "size" -> {"array", "object"} ]

\* A step that calls a typed operation on a json of another kind than the
\* operation requires fails and leaves the json as it was.
TypeMismatchFails ==
  \A op \in DOMAIN Required :
    (call'.op = op /\ doc.type \notin Required[op]) => (~outcome'.ok /\ doc' = doc)

\* C10: every typed getter and narrowing conversion, size, has_member,
\* add_member, add_element and both indexed accesses, called on a json whose
\* kind is not the kind the operation requires, fails and leaves the json
\* unchanged; no kind is coerced to another, so get_double on an integer and
\* get_integer on a double fail.
C10_TypeMismatch == [][TypeMismatchFails]_vars

\* get_double has failed on an integer, with the type mismatch error.
C10_Witness ==
  /\ call.op = "get_double"
  /\ doc = json_integer(-3)
  /\ ~outcome.ok
  /\ outcome.err = CHECK_TYPE_MISMATCH("number_integer", "number_double")

\* The keys of the members of an object.
MemberNames(j) == {j.obj[i].key : i \in 1..Len(j.obj)}

\* A step that looks up a key the object has no member for, or an index
\* outside 0..size()-1, fails and leaves the container as it was.
LookupFails ==
  /\ (call'.op = "operator[](key)" /\ doc.type = "object"
        /\ call'.key \notin MemberNames(doc))
       => (~outcome'.ok /\ outcome'.err = Error("key not found.") /\ doc' = doc)
  /\ (call'.op = "operator[](index)" /\ doc.type = "array"
        /\ call'.index \notin 0..(Len(doc.arr) - 1))
       => (~outcome'.ok /\ outcome'.err = Error("index out of range.") /\ doc' = doc)

\* C11: indexed access fails for a key that is no member of the object and
\* for an index outside [0, size()), a negative index among them, and the
\* failed lookup leaves the container unchanged: no member is inserted and
\* size() is what it was.
C11_FailedLookup == [][LookupFails]_vars

\* operator[] has failed for a key an object of one member does not have, and
\* for the index -1 of an array of one element.
C11_Witness ==
  /\ ~outcome.ok
  /\ \/ /\ call.op = "operator[](key)"
        /\ doc.type = "object"
        /\ Len(doc.obj) = 1
        /\ call.key \notin MemberNames(doc)
     \/ /\ call.op = "operator[](index)"
        /\ doc.type = "array"
        /\ Len(doc.arr) = 1
        /\ call.index = -1

\* The value read at the end of a path of indexed accesses, v[s1][s2]...
RECURSIVE ReadAt(_, _)
ReadAt(v, path) ==
  IF path = <<>> THEN v
  ELSE ReadAt(IF Head(path).by = "key"
                THEN subscript_key(v, Head(path).key).ret
                ELSE subscript_index(v, Head(path).index).ret,
              Tail(path))

\* Whether the json read at the end of the path holds the value the last
\* call added: as the member of the key, or as the last element.
HoldsAdded(target) ==
  IF call.op = "add_member"
    THEN /\ subscript_key(target, call.key).ok
         /\ json_eq(subscript_key(target, call.key).ret, call.val)
    ELSE /\ target.type = "array"
         /\ Len(target.arr) > 0
         /\ json_eq(target.arr[Len(target.arr)], call.val)

\* C12: indexed access returns a live reference into the owned subtree: when
\* parent[s1]...[sn].add_member(k, v) or .add_element(v) has succeeded, a
\* read of parent along the same accesses finds v there, at any depth.
C12_LiveReference ==
  (call.op \in {"add_member", "add_element"} /\ outcome.ok /\ call.path # <<>>)
    => HoldsAdded(ReadAt(value_of(heap, handles[call.on]), call.path))

\* a["k"]["k"].add_member("k", v) has succeeded, two accesses deep.
C12_Witness ==
  /\ call.op = "add_member"
  /\ outcome.ok
  /\ Len(call.path) = 2
  /\ call.path[1].by = "key"
  /\ Len(value_of(heap, handles[call.on]).obj) = 1

\* Whether a value holds a double that is not a number, at any depth.
RECURSIVE HoldsNaN(_)
HoldsNaN(v) ==
  CASE v.type = "number_double" -> v.dbl.cls = "nan"
    [] v.type = "array" -> \E i \in 1..Len(v.arr) : HoldsNaN(v.arr[i])
    [] v.type = "object" -> \E i \in 1..Len(v.obj) : HoldsNaN(v.obj[i].val)
    [] OTHER -> FALSE

\* The value a handle holds before and after a step.
Held(name) == value_of(heap, handles[name])

HeldAfter(name) == value_of(heap', handles'[name])

\* A step that copies (by the copy constructor or operator=, or from the
\* container a getter returns) leaves the copy equal to its source when the
\* source is among the values given, and the source as it was; a step that
\* adds a member or an element through one handle, at any depth, leaves
\* what the other handle holds as it was.
CopiesAreIndependent(equal_when(_)) ==
  /\ (call'.op \in {"operator=", "get_object", "get_array"} /\ outcome'.ok)
       => /\ equal_when(HeldAfter(call'.on)) => json_eq(HeldAfter("a"), HeldAfter("b"))
          /\ \A other \in Handles \ {call'.on} : HeldAfter(other) = Held(other)
  /\ (call'.op \in {"add_member", "add_element"})
       => \A other \in Handles \ {call'.on} : HeldAfter(other) = Held(other)

AnyValue(v) == TRUE

NoNaN(v) == ~HoldsNaN(v)

Mapped(j, key) == j.obj[CHOOSE i \in 1..Len(j.obj) : j.obj[i].key = key].val

\* Whether two values are of the same kind and hold, recursively, an equal
\* payload: arrays element by element, objects as mappings of the same names
\* to equal values, doubles as the numbers they are (-0.0 is 0.0); nans says
\* whether a NaN is taken for a payload, equal to itself.
RECURSIVE SamePayload(_, _, _)
SamePayload(x, y, nans) ==
  /\ x.type = y.type
  /\ CASE x.type = "array" ->
             /\ Len(x.arr) = Len(y.arr)
             /\ \A i \in 1..Len(x.arr) : SamePayload(x.arr[i], y.arr[i], nans)
        [] x.type = "object" ->
             /\ MemberNames(x) = MemberNames(y)
             /\ \A k \in MemberNames(x) : SamePayload(Mapped(x, k), Mapped(y, k), nans)
        [] x.type = "number_double" ->
             /\ nans \/ x.dbl.cls # "nan"
             /\ \/ x.dbl = y.dbl
                \/ /\ x.dbl.cls = "finite"
                   /\ x.dbl.m = 0
                   /\ y.dbl = [x.dbl EXCEPT !.neg = ~x.dbl.neg]
        [] x.type = "string" -> x.str = y.str
        [] x.type = "boolean" -> x.bool = y.bool
        [] x.type = "number_integer" -> x.int = y.int
        [] OTHER -> TRUE

\* What operator== and operator!= have returned for doc and the other value.
EqualityIs(nans) ==
  /\ call.op = "operator==" => (outcome.ret.bool <=> SamePayload(doc, call.val, nans))
  /\ call.op = "operator!=" => (outcome.ret.bool <=> ~SamePayload(doc, call.val, nans))
  /\ (call.op = "operator==" /\ doc.type # call.val.type) => ~outcome.ret.bool

\* C14 as stated: operator== returns true exactly when both values have the
\* same kind and recursively equal payload, whatever the payload, and
\* operator!= is its negation.
C14_EqualityOfAnyPayload == EqualityIs(TRUE)

\* C14, amended: operator== returns true exactly when both values have the
\* same kind and recursively equal payload (arrays element-wise in order,
\* objects as key-to-value mappings, null equal to null), except that a
\* double holding NaN is equal to nothing, itself included; values of
\* different kinds are never equal, an integer never equals a double; and
\* operator!= is the negation of operator==.
C14_Equality == EqualityIs(FALSE)

\* Two objects of two members, one of them an array, have been found equal.
C14_Witness ==
  /\ call.op = "operator=="
  /\ doc.type = "object"
  /\ Len(doc.obj) = 2
  /\ doc.obj[1].val.type = "array"
  /\ call.val.type = "object"
  /\ outcome.ret.bool

\* The value of a hexadecimal digit.
HexValue(c) == IF isdigit(c) THEN c - 48 ELSE IF c >= 97 THEN c - 87 ELSE c - 55

\* The code point an escape character stands for: " \ / b f n r t
EscapeOf(c) ==
  CASE c = 98 -> 8
    [] c = 102 -> 12
    [] c = 110 -> 10
    [] c = 114 -> 13
    [] c = 116 -> 9
    [] OTHER -> c

\* Whether four hexadecimal digits are written from position i of a text.
FourHex(t, i) == i + 3 <= Len(t) /\ \A j \in i..(i + 3) : isxdigit(t[j])

\* What a string text denotes, read from position i after the opening
\* quote: the code points up to the closing quote, each escape replaced by
\* the code point it stands for; not ok when a backslash is followed by
\* anything else than an escape character or u and four hexadecimal digits,
\* or when the text ends before the closing quote.
RECURSIVE Denoted(_, _, _)
Denoted(t, i, acc) ==
  IF i > Len(t) THEN [ok |-> FALSE, val |-> acc]
  ELSE IF t[i] = Quote THEN [ok |-> TRUE, val |-> acc]
  ELSE IF t[i] # Backslash THEN Denoted(t, i + 1, Append(acc, t[i]))
  ELSE IF i + 1 > Len(t) THEN [ok |-> FALSE, val |-> acc]
  ELSE IF t[i + 1] \in {34, 92, 47, 98, 102, 110, 114, 116}
    THEN Denoted(t, i + 2, Append(acc, EscapeOf(t[i + 1])))
  ELSE IF t[i + 1] = 117 /\ FourHex(t, i + 2)
    THEN Denoted(t, i + 6,
                 Append(acc, 4096 * HexValue(t[i + 2]) + 256 * HexValue(t[i + 3])
                               + 16 * HexValue(t[i + 4]) + HexValue(t[i + 5])))
  ELSE [ok |-> FALSE, val |-> acc]

\* Whether the last call parsed the text as what it denotes.
ParsedAsDenoted(denoted) ==
  /\ parsed.ok = denoted.ok
  /\ denoted.ok => parsed.val = json_string(U32ToU8(denoted.val).bytes)

\* C15: escape handling in strings and member names: after a backslash each
\* of " \ / b f n r t yields its mapped code point, u followed by four
\* hexadecimal digits yields the code point with that value, and a backslash
\* followed by any other character, by fewer than four hexadecimal digits,
\* by a digit that is not hexadecimal or by the end of the text makes the
\* parse fail.
C15_Escapes ==
  call.op \in {"parse_string", "parse_member"} => ParsedAsDenoted(Denoted(input, 2, <<>>))

\* Where the first string, array or object of a text ends, the text read
\* from position i with depth arrays and objects open, inside a string or
\* not: closed, or open when the text ends before the closing quote or the
\* closing bracket.  A backslash in a string takes the character after it
\* with it.
RECURSIVE EndOf(_, _, _, _)
EndOf(t, i, depth, quoted) ==
  IF i > Len(t) THEN [closed |-> FALSE, depth |-> depth, quoted |-> quoted]
  ELSE IF quoted
    THEN IF t[i] = Backslash THEN EndOf(t, i + 2, depth, TRUE)
         ELSE IF t[i] # Quote THEN EndOf(t, i + 1, depth, TRUE)
         ELSE IF depth = 0 THEN [closed |-> TRUE, depth |-> 0, quoted |-> FALSE]
         ELSE EndOf(t, i + 1, depth, FALSE)
  ELSE IF t[i] = Quote THEN EndOf(t, i + 1, depth, TRUE)
  ELSE IF t[i] \in {LeftBracket, LeftBrace} THEN EndOf(t, i + 1, depth + 1, FALSE)
  ELSE IF t[i] \in {RightBracket, RightBrace}
    THEN IF depth <= 1 THEN [closed |-> TRUE, depth |-> 0, quoted |-> FALSE]
         ELSE EndOf(t, i + 1, depth - 1, FALSE)
  ELSE EndOf(t, i + 1, depth, FALSE)

\* Whether a text ends before the closing quote of the string it begins
\* with, or before the closing bracket of the array or the object.
EndsInside(t) ==
  /\ ~EndOf(t, 1, 0, FALSE).closed
  /\ EndOf(t, 1, 0, FALSE).quoted \/ EndOf(t, 1, 0, FALSE).depth > 0

\* C16: premature end of input is always an error: when the text ends
\* inside a string or a member name, inside an array or inside an object,
\* the parse routine called on it fails and returns no value.
C16_PrematureEnd ==
  (call.op \in {"parse_string", "parse_member", "parse_array", "parse_object", "parse"}
     /\ EndsInside(input))
    => (~parsed.ok /\ parsed.val = json_null)

\* parse_object has failed on an object text cut short inside the array of
\* its second member.
C16_Witness ==
  /\ call.op = "parse_object"
  /\ src.family = "cut"
  /\ EndOf(input, 1, 0, FALSE).depth = 2
  /\ \E i \in 1..Len(input) : input[i] = Comma
  /\ ~parsed.ok

\* Whether a token is a member name, and whether it begins a value: a string,
\* a number or an array.
IsName(token) == token[1] = Quote

BeginsValue(token) == token[1] = Quote \/ isdigit(token[1]) \/ token[1] = LeftBracket

\* The members of an object text read token by token from token i, what
\* stands for the position: "member", "colon" after a name, "value" after a
\* colon.  The reading ends as "rejected" at a token that is no name, comma
\* or closing brace at a member position, at a name not followed by a
\* colon, and at a colon not followed by a value; as "closed" at the closing
\* brace, with the names read; and as "open" where the claim says nothing:
\* at the end of the tokens, or at an opening bracket alone.
RECURSIVE Members(_, _, _, _)
Members(ts, i, position, names) ==
  LET Ends(as) == [as |-> as, names |-> names]
  IN  CASE position = "member" ->
             IF i > Len(ts) THEN Ends("open")
             ELSE IF ts[i] = << RightBrace >> THEN Ends("closed")
             ELSE IF ts[i] = << Comma >> THEN Members(ts, i + 1, "member", names)
             ELSE IF IsName(ts[i])
               THEN Members(ts, i + 1, "colon",
                            names \cup {SubSeq(ts[i], 2, Len(ts[i]) - 1)})
             ELSE Ends("rejected")
        [] position = "colon" ->
             IF i <= Len(ts) /\ ts[i] = << Colon >> THEN Members(ts, i + 1, "value", names)
             ELSE Ends("rejected")
        [] OTHER ->
             IF i > Len(ts) \/ ~BeginsValue(ts[i]) THEN Ends("rejected")
             ELSE IF ts[i] = << LeftBracket >> THEN Ends("open")
             ELSE Members(ts, i + 1, "member", names)

\* Whether the last parse treated the members as read.
MembersParsed(read) ==
  /\ read.as = "rejected" => ~parsed.ok
  /\ (read.as = "closed" /\ parsed.ok)
       => (parsed.val.type = "object" /\ size(parsed.val).ret = json_integer(Cardinality(read.names)))

\* C19: object parsing rejects malformed members: at a member position a
\* token other than a name, a comma or the closing brace fails, a name not
\* followed by a colon fails, a colon not followed by a value fails; and
\* an object text parsed with success yields an object whose size is the
\* number of distinct member names in the text.
C19_MalformedMembers ==
  (call.op \in {"parse_object", "parse"} /\ src.family \in {"object", "faulty"})
    => MembersParsed(Members(src.tokens, 2, "member", {}))

\* parse_object has failed on the text of two members with the second colon
\* replaced by another token.
C19_Witness ==
  /\ call.op = "parse_object"
  /\ src.family = "faulty"
  /\ Len(src.tokens) = 9
  /\ src.tokens[7] # << Colon >>
  /\ Members(src.tokens, 2, "member", {}).as = "rejected"
  /\ ~parsed.ok

\* The token of a literal: the text before its first , ] or }
RECURSIVE TokenBefore(_)
TokenBefore(t) ==
  IF t = <<>> \/ Head(t) \in {Comma, RightBracket, RightBrace} THEN <<>>
  ELSE << Head(t) >> \o TokenBefore(Tail(t))

\* A text in lower case.
LowerCase(t) == [i \in 1..Len(t) |-> IF t[i] \in 65..90 THEN t[i] + 32 ELSE t[i]]

\* A text without the spaces, tabs and line ends before and after it.
RECURSIVE Stripped(_)
Stripped(t) ==
  IF t = <<>> THEN <<>>
  ELSE IF Head(t) \in {32, 9, 13, 10} THEN Stripped(Tail(t))
  ELSE IF t[Len(t)] \in {32, 9, 13, 10} THEN Stripped(SubSeq(t, 1, Len(t) - 1))
  ELSE t

\* Whether the last call took the word for the literal it is, and anything
\* else for none.
LiteralParsed(word) ==
  /\ call.op = "parse_bool" =>
       IF word = U(<< "t", "r", "u", "e" >>) THEN parsed.ok /\ parsed.val = json_bool(TRUE)
       ELSE IF word = U(<< "f", "a", "l", "s", "e" >>)
         THEN parsed.ok /\ parsed.val = json_bool(FALSE)
       ELSE ~parsed.ok
  /\ call.op = "parse_null" =>
       IF word = U(<< "n", "u", "l", "l" >>) THEN parsed.ok /\ parsed.val = json_null
       ELSE ~parsed.ok

\* C20: boolean and null tokens are matched case-insensitively and exactly:
\* the token up to the next , ] } or the end of the text, in lower case and
\* trimmed, must be true or false for a boolean and null for null; any
\* other token, one with more characters or a second word among them,
\* makes the parse fail.
C20_Literals ==
  call.op \in {"parse_bool", "parse_null"}
    => LiteralParsed(Stripped(LowerCase(TokenBefore(input))))

\* parse_bool has returned true for the text " tRue,".
C20_Witness ==
  /\ call.op = "parse_bool"
  /\ input = U(<< " ", "t", "R", "u", "e", "," >>)
  /\ parsed.ok
  /\ parsed.val = json_bool(TRUE)

\* The texts of a sequence joined by commas.
RECURSIVE Joined(_)
Joined(texts) ==
  IF texts = <<>> THEN <<>>
  ELSE IF Len(texts) = 1 THEN texts[1]
  ELSE texts[1] \o << Comma >> \o Joined(Tail(texts))

\* The text of a member: "key" : value
MemberText(member) ==
  << Quote >> \o member.key \o << Quote >> \o U(<< " ", ":", " " >>)
    \o to_string(member.val).text

\* C17: serializer output shape: the text of an array is [ followed by the
\* texts of its elements in order joined by commas and ], the text of an
\* object is { followed by its members as "key" : value joined by commas
\* and }; the empty array gives [] and the empty object {}.
C17_OutputShape ==
  (call.op = "to_string" /\ text.ok)
    => /\ doc.type = "array" =>
            text.text = << LeftBracket >>
                          \o Joined([i \in 1..Len(doc.arr) |-> to_string(doc.arr[i]).text])
                          \o << RightBracket >>
       /\ doc.type = "object" =>
            text.text = << LeftBrace >>
                          \o Joined([i \in 1..Len(doc.obj) |-> MemberText(doc.obj[i])])
                          \o << RightBrace >>

\* The values of a sequence of elements or of calls, in order.
ValuesOf(items) == [i \in 1..Len(items) |-> items[i].val]

\* A step of add_element on an array makes it one element longer, the new
\* element the last and the others where they were, so that the array holds
\* the elements of all the calls in call order; and a parse of an array
\* text returns the elements of the text in the order of the text.
ElementsInOrder ==
  /\ (call'.op = "add_element" /\ doc.type = "array" /\ written' # written)
       => /\ doc'.type = "array"
          /\ size(doc').ret.int = size(doc).ret.int + 1
          /\ subscript_index(doc', Len(doc.arr)).ret = call'.val
          /\ \A i \in 0..(Len(doc.arr) - 1) :
               subscript_index(doc', i).ret = subscript_index(doc, i).ret
          /\ doc'.arr = ValuesOf(written')
  /\ (call'.op \in {"parse_array", "parse"} /\ src.family = "array")
       => /\ parsed'.ok
          /\ parsed'.val = json_array(ValuesOf(src.members))

\* C18: add_element appends: after a sequence of add_element calls on an
\* array its size is the size before plus the number of calls, the new
\* elements are at the end in call order and the elements it had keep
\* their index and value; and an array text parses to its elements in the
\* order of the text.
C18_Appends == [][ElementsInOrder]_vars

\* Two different elements have been added to the array, and parse_array has
\* returned the two elements of the text.
C18_Witness ==
  /\ call.op = "parse_array"
  /\ Len(written) = 2
  /\ doc.arr[1] # doc.arr[2]
  /\ parsed.ok
  /\ parsed.val = doc

\* The typed getters.
Getters ==
  { "get_string", "get_integer", "get_double", "get_bool", "get_object", "get_array",
    "get_null" }

\* What the message of a type mismatch states: the kind written after
\* "expect type" and the kind written after "but found type".
Expected(err) == err.t1

Found(err) == err.t2

\* A step that calls a typed getter on a json of another kind fails with a
\* type mismatch that states the kind the getter requires as expected and
\* the kind of the json as found.
ReportsRequiredAsExpected ==
  \A op \in Getters :
    (call'.op = op /\ doc.type \notin Required[op])
      => /\ ~outcome'.ok
         /\ Expected(outcome'.err) \in Required[op]
         /\ Found(outcome'.err) = doc.type

\* C21: a type-mismatch failure of a typed getter reports the kind the
\* operation requires as the expected kind and the kind of the json as the
\* kind found, not the other way round.
C21_ExpectedAndFound == [][ReportsRequiredAsExpected]_vars

\* The calls that return a code point without consuming it, and the calls
\* that return the code point they consume.
Peeks == {"peek", "peek_next_non_space"}

Reads == {"get", "get_next_non_space"}

\* The positions read with strm.get() so far are in ascending order, none
\* of them twice.
ReadOnce ==
  \A i \in DOMAIN strm.got : \A j \in DOMAIN strm.got : i < j => strm.got[i] < strm.got[j]

\* A step of the cursor program leaves the stream at or after the position
\* it was at; a peek leaves the code point that get_next_non_space returns
\* next the one it was, and what is called right after a
\* peek_next_non_space, or strm.get() right after strm.peek(), returns the
\* code point the peek returned; and the positions read are read once.
CursorAdvances ==
  /\ strm'.pos >= strm.pos
  /\ call'.op \in Peeks =>
       get_next_non_space(input, strm'.pos).c = get_next_non_space(input, strm.pos).c
  /\ call'.op = "peek" => strm'.pos = strm.pos
  /\ (call.op = "peek_next_non_space" /\ call'.op \in Peeks \cup Reads)
       => call'.index = call.index
  /\ (call.op = "peek" /\ call'.op = "get") => call'.index = call.index
  /\ ReadOnce'

\* C22: the cursor only advances: across every parse routine and cursor
\* primitive the position of the input never decreases, a peek never
\* changes which code point the next read returns, and no code point is
\* consumed more than once.
C22_CursorAdvances == [][CursorAdvances]_vars

\* The text ], has been read to its end by more than one call, the last of
\* them get_next_non_space returning the comma.
C22_Witness ==
  /\ input = << RightBracket, Comma >>
  /\ call.op = "get_next_non_space"
  /\ call.index = Comma
  /\ strm.pos = 3
  /\ strm.got = << 1, 2 >>

\* The kinds of a well-formed json: every kind of json_t but invalid.
Kinds == json_t \ {"invalid"}

\* A json whose kind, and the kind of every element and member value in it
\* at any depth, is none of invalid.
RECURSIVE WellFormed(_)
WellFormed(j) ==
  /\ j.type \in Kinds
  /\ \A i \in DOMAIN j.arr : WellFormed(j.arr[i])
  /\ \A i \in DOMAIN j.obj : WellFormed(j.obj[i].val)

\* C23: no json of kind invalid is reachable: after any sequence of
\* constructions, copies, assignments, add_member and add_element calls,
\* indexed accesses and successful parses, the json the program holds, the
\* json every call was given, returned or left, and the json parsed, have
\* at every depth a kind among string, number_integer, number_double, array,
\* boolean, object and null, and to_string never fails for an invalid kind.
C23_NoInvalidKind ==
  /\ WellFormed(doc)
  /\ WellFormed(call.val)
  /\ WellFormed(outcome.self)
  /\ WellFormed(outcome.ret)
  /\ WellFormed(parsed.val)
  /\ text.err # Error("invalid json type")

\* The object that holds the object {"k" : [7]} as a member has been
\* written by to_string and parsed back.
C23_Witness ==
  /\ call.op = "parse(to_string)"
  /\ parsed.ok
  /\ parsed.val = doc
  /\ doc.type = "object"
  /\ \E i \in DOMAIN doc.obj :
       /\ doc.obj[i].val.type = "object"
       /\ \E k \in DOMAIN doc.obj[i].val.obj : doc.obj[i].val.obj[k].val.type = "array"

\* How many times an address is among the addresses deleted.
Releases(address) == Cardinality({i \in DOMAIN freed : freed[i] = address})

\* C24: every payload allocated for a json is released exactly once: after
\* any sequence of constructions, copy assignments to a json that holds a
\* payload and add_member calls that overwrite the value of a name, and
\* then the destruction of every json, no payload remains allocated and
\* none has been released twice.
C24_ReleasedOnce ==
  call.op = "~json" => \A address \in DOMAIN heap : Releases(address) = 1

\* The places of a loop from which a step goes back to the head of the loop.
LoopBodies ==
  { "string_loop", "member_loop", "number", "bool", "null", "array_after", "object_loop",
    "object_value" }

\* A step that takes a loop from its body back to its head leaves the
\* stream after the position it was at when the loop was last at its head,
\* and so does a turn of skip_space.
LoopProgress ==
  /\ call'.op = "skip_space" => strm'.pos > strm.pos
  /\ (/\ frames # <<>>
      /\ Len(frames') = Len(frames)
      /\ Top.pc \in LoopBodies
      /\ frames'[Len(frames')].pc \in LoopHeads)
       => strm'.pos > Top.mark

\* parser::parse has returned or thrown.
Returned == frames = <<>>

\* C25: parser::parse terminates on every finite input, returning a json or
\* failing: every turn of the loops of parse_object, parse_array,
\* parse_string, parse_member, parse_number, parse_bool, parse_null and
\* skip_space consumes at least one code point or leaves the loop.
C25_Terminates == [][LoopProgress]_vars /\ <>Returned

\* parser::parse has returned the object of the text {"a":1} with every
\* code point of the text read.
C25_Witness ==
  /\ Returned
  /\ input = U(<< "{", "\"", "a", "\"", ":", "1", "}" >>)
  /\ parsed.ok
  /\ parsed.val = add_member(json_object(<<>>), U(<< "a" >>), json_integer(1)).self
  /\ Len(strm.got) = Len(input)

\* The object text of the members ms separated by single commas.
SingleCommas(ms) ==
  << LeftBrace >> \o Joined([i \in 1..Len(ms) |-> EntryText(ms[i])]) \o << RightBrace >>

\* Whether the last parse returned what the routine returns for the text.
ParsedAs(single) == parsed.ok /\ single.ok /\ parsed.val = single.val

\* C26: object parsing neither requires nor limits commas: an object text
\* with commas before the first member, after the last one or repeated
\* between two members, and with no comma after a member whose value is a
\* string, an array or an object, parses with success, and the result is
\* the object parsed from the same members separated by single commas.
C26_Commas ==
  (call.op \in {"parse_object", "parse"} /\ src.family = "commas")
    => ParsedAs(parse_object(SingleCommas(src.members), 1))

\* parse_object has returned the object of a and b for the text
\* {,"a":"x" "b":{},,}
C26_Witness ==
  /\ call.op = "parse_object"
  /\ input = U(<< "{", ",", "\"", "a", "\"", ":", "\"", "x", "\"", " ",
                  "\"", "b", "\"", ":", "{", "}", ",", ",", "}" >>)
  /\ parsed.ok
  /\ size(parsed.val).ret = json_integer(2)

====
